---- MODULE Spec2Model ----
(***************************************************************************)
(* A model of the FreeMarker static analyzer: the LRU cache, the import   *)
(* resolver that uses it, the error reporter, the analyze() entry point   *)
(* and the semantic analyzer.  Every component has a specification of its *)
(* own over the shared variables; the variables of the components a       *)
(* specification does not exercise stay at their initial values.          *)
(***************************************************************************)
EXTENDS Integers, Sequences, FiniteSets, TLC

VARIABLES
    cache,          \* LRUCache.cache: the Map's entries in insertion order
    capacity,       \* LRUCache.capacity
    configured,     \* the size last handed to the constructor or setMaxSize
    options,        \* ImportResolver.options
    graph,          \* ImportResolver.dependencyGraph
    resolutionStack,\* ImportResolver.resolutionStack
    fs,             \* the file system the resolver reads: uri -> file
    useOrder,       \* history: the cached keys, least recently used first
    lruOk,          \* history: every eviction so far took the least recently used key
    scen,           \* history: how far the calls so far follow a, b, a, c; below 0 they do
                    \* not, and the last step was a call that returned (-2), a call
                    \* that rejected (-3), or something else (-1)
    diagnostics,    \* ErrorReporter.diagnostics
    suppressedCodes,\* ErrorReporter.suppressedCodes
    rangeIn,        \* the range a producer hands to the reporter
    template,       \* the text handed to analyze, in pieces
    filePath,       \* the path handed to analyze
    fault,          \* the stage of analyze in which a run-time exception is raised
    result,         \* what the last analyze call gave its caller
    chain,          \* SemanticAnalyzer: the analyses of files in progress, the caller's first
    visited,        \* SemanticAnalyzer: context.visited, shared along the chain
    rootInst,       \* SemanticAnalyzer: processing, completed and cache of the caller's analyzer
    semResult,      \* SemanticAnalyzer: what the caller's analyze call returned
    seen,           \* history: what the steps of the current analysis met
    calls,          \* ImportResolver: the resolveImports calls that have not returned yet
    validation,     \* FreeMarkerStaticAnalyzer: the walk of validateDependencies
    lexer,          \* FreeMarkerLexer: the text, the place in it and the tokens so far
    parser,         \* FreeMarkerParser: the tokens, the place in them, how each body ended
    extension       \* the extension: open documents, timers, pendingAnalyses, diagnostics

lruVars == <<cache, capacity, configured>>

resVars == <<options, graph, resolutionStack, fs, useOrder, lruOk, scen>>

repVars == <<diagnostics, suppressedCodes, rangeIn>>

anaVars == <<template, filePath, fault, result>>

semVars == <<chain, visited, rootInst, semResult, seen>>

conVars == <<calls, validation, lexer, parser, extension>>

vars == <<lruVars, resVars, repVars, anaVars, semVars, conVars>>

\* what the operations of one component leave alone
lruOthers == <<resVars, repVars, anaVars, semVars, conVars>>
resOthers == <<repVars, anaVars, semVars, conVars>>
repOthers == <<lruVars, resVars, anaVars, semVars, conVars>>
anaOthers == <<lruVars, resVars, semVars, conVars>>
semOthers == <<lruVars, options, graph, resolutionStack, useOrder, lruOk, scen, repVars, anaVars,
               conVars>>
conOthers == <<repVars, anaVars, semVars, validation, lexer, parser, extension>>
valOthers == <<lruVars, options, graph, resolutionStack, useOrder, lruOk, scen, anaVars, semVars,
               calls, lexer, parser, extension>>
lexOthers == <<lruVars, resVars, repVars, anaVars, semVars, calls, validation, parser, extension>>
parOthers == <<lruVars, resVars, repVars, anaVars, semVars, calls, validation, lexer, extension>>
extOthers == <<lruVars, resVars, repVars, anaVars, semVars, calls, validation, lexer, parser>>

(***************************************************************************)
(* JavaScript numbers.  A number is undefined, NaN, +Infinity, -Infinity   *)
(* or finite; a finite number is held as twice its value (h), so that     *)
(* halves exist and Math.floor has work to do.                             *)
(***************************************************************************)
Undef == [k |-> "undef", h |-> 0]
NaN == [k |-> "nan", h |-> 0]
PosInf == [k |-> "inf", h |-> 0]
NegInf == [k |-> "ninf", h |-> 0]
Fin(h) == [k |-> "fin", h |-> h]

IsFinite(n) == n.k = "fin"

\* Math.floor of a finite number, as an integer
Floor(n) == n.h \div 2

(***************************************************************************)
(* LRUCache                                                                *)
(***************************************************************************)
\* the largest whole cache size the configuration inputs reach
MaxSize == 3

Keys == {"a", "b", "c"}
Values == {"v1", "v2"}
\* the value oldestKey takes when keys().next() has nothing to give
NoKey == "undefined"

\* sizes a caller may configure: non-finite, negative, zero, halves, whole
SizeInputs ==
    {NaN, PosInf, NegInf} \cup {Fin(h) : h \in -3 .. (2 * MaxSize + 1)}

CacheHas(c, k) == \E i \in 1 .. Len(c) : c[i].key = k

CacheIndex(c, k) == CHOOSE i \in 1 .. Len(c) : c[i].key = k

CacheValue(c, k) == c[CacheIndex(c, k)].value

CacheDelete(c, k) == SelectSeq(c, LAMBDA e : e.key # k)

CacheKeys(c) == {c[i].key : i \in 1 .. Len(c)}

NormalizeCapacityCeil(value) ==
    IF ~IsFinite(value) THEN 0
    ELSE IF (value.h + 1) \div 2 > 0 THEN (value.h + 1) \div 2 ELSE 0

NormalizeCapacity(value) ==
    IF ~IsFinite(value) THEN 0
    ELSE IF Floor(value) > 0 THEN Floor(value) ELSE 0

RECURSIVE EvictIfNeeded(_, _)
EvictIfNeeded(c, cap) ==
    IF Len(c) > cap
    THEN IF Head(c).key = NoKey THEN c ELSE EvictIfNeeded(Tail(c), cap)
    ELSE c

\* get: a hit moves the entry to the most-recent end
LRUGetNoRefresh(c, k) == c

LRUGet(c, k) ==
    IF ~CacheHas(c, k) THEN c
    ELSE Append(CacheDelete(c, k), [key |-> k, value |-> CacheValue(c, k)])

LRUSet(c, cap, k, v) ==
    LET c1 == IF CacheHas(c, k) THEN CacheDelete(c, k) ELSE c
    IN IF cap = 0 THEN c1
       ELSE EvictIfNeeded(Append(c1, [key |-> k, value |-> v]), cap)

LRUSetMaxSize(c, maxSize) ==
    LET cap == NormalizeCapacity(maxSize)
    IN IF cap = 0 THEN <<>> ELSE EvictIfNeeded(c, cap)

LruGetCall(k) ==
    /\ cache' = LRUGet(cache, k)
    /\ UNCHANGED <<capacity, configured>>
    /\ UNCHANGED lruOthers

LruSetCall(k, v) ==
    /\ cache' = LRUSet(cache, capacity, k, v)
    /\ UNCHANGED <<capacity, configured>>
    /\ UNCHANGED lruOthers

LruDeleteCall(k) ==
    /\ cache' = CacheDelete(cache, k)
    /\ UNCHANGED <<capacity, configured>>
    /\ UNCHANGED lruOthers

LruClearCall ==
    /\ cache' = <<>>
    /\ UNCHANGED <<capacity, configured>>
    /\ UNCHANGED lruOthers

LruSetMaxSizeCall(n) ==
    /\ configured' = n
    /\ capacity' = NormalizeCapacity(n)
    /\ cache' = LRUSetMaxSize(cache, n)
    /\ UNCHANGED lruOthers

LruNext ==
    \/ \E k \in Keys : LruGetCall(k)
    \/ \E k \in Keys, v \in Values : LruSetCall(k, v)
    \/ \E k \in Keys : LruDeleteCall(k)
    \/ LruClearCall
    \/ \E n \in SizeInputs : LruSetMaxSizeCall(n)

(***************************************************************************)
(* ImportResolver                                                          *)
(***************************************************************************)
\* the largest modification time a file reaches
MaxMtime == 2

Uris == Keys
\* a reference no file answers to
MissingRef == "m"
Refs == Uris \cup {MissingRef}

ReadError == "read"
SyntaxError == "syntax"

EmptyGraph == [nodes |-> <<>>, edges |-> <<>>, circularDependencies |-> <<>>]

DefaultOptions == [maxDepth |-> 10, cacheEnabled |-> TRUE, maxCacheSize |-> Fin(400)]

\* Map.set: a key that is present keeps its place
MapSet(m, k, v) ==
    IF CacheHas(m, k) THEN [m EXCEPT ![CacheIndex(m, k)].value = v]
    ELSE Append(m, [key |-> k, value |-> v])

SeqHas(q, x) == \E i \in 1 .. Len(q) : q[i] = x

SeqRemove(q, x) == SelectSeq(q, LAMBDA e : e # x)

SeqIndex(q, x) == CHOOSE i \in 1 .. Len(q) : q[i] = x

AddEdge(edges, from, to) ==
    LET e1 == IF CacheHas(edges, from) THEN edges
              ELSE Append(edges, [key |-> from, value |-> <<>>])
        cur == CacheValue(e1, from)
    IN IF SeqHas(cur, to) THEN e1 ELSE MapSet(e1, from, Append(cur, to))

EdgesOf(edges, n) == IF CacheHas(edges, n) THEN CacheValue(edges, n) ELSE <<>>

\* fs.promises.access succeeds
FileExists(u) == u \in Uris /\ fs[u].exists

\* fs.promises.stat: 0 stands for a stat that fails (getFileStats gives null)
StatMtime(u) == IF u \in Uris /\ fs[u].exists THEN fs[u].mtime ELSE 0

IsCacheValidAlways(cachedNode) == TRUE

IsCacheValid(cachedNode) ==
    /\ cachedNode.lastModified # 0
    /\ StatMtime(cachedNode.uri) # 0
    /\ StatMtime(cachedNode.uri) <= cachedNode.lastModified

\* content: the caller supplied the text of the file; otherwise the file is read
CreateDependencyNode(uri, content) ==
    IF ~content /\ ~fs[uri].readable
    THEN [uri |-> uri, content |-> FALSE, ast |-> FALSE, imports |-> <<>>,
          includes |-> <<>>, isResolved |-> FALSE, lastModified |-> 0,
          errors |-> <<ReadError>>]
    ELSE [uri |-> uri, content |-> TRUE, ast |-> fs[uri].parseOk, imports |-> <<>>,
          includes |-> <<>>, isResolved |-> FALSE,
          lastModified |-> IF content THEN 0 ELSE StatMtime(uri),
          errors |-> IF fs[uri].parseOk THEN <<>> ELSE <<SyntaxError>>]

\* history: k was used (a cache hit or a store)
GhostTouch(order, k) == Append(SeqRemove(order, k), k)

\* history: the keys in gone left the cache by eviction; each must be older
\* in use than every key that stayed
GhostEvictOk(order, gone, stay) ==
    \A e \in gone : \A r \in stay : SeqIndex(order, e) < SeqIndex(order, r)

\* this.cache.get(k) on the resolver's cache
CacheGet(st, k) ==
    IF CacheHas(st.cache, k)
    THEN [st EXCEPT !.cache = LRUGet(@, k), !.useOrder = GhostTouch(@, k)]
    ELSE st

\* this.cache.delete(k)
CacheDrop(st, k) ==
    [st EXCEPT !.cache = CacheDelete(@, k), !.useOrder = SeqRemove(@, k)]

\* this.cache.set(k, v)
CacheStore(st, k, v) ==
    LET after == LRUSet(st.cache, capacity, k, v)
        order == GhostTouch(st.useOrder, k)
        stored == CacheHas(after, k)
        gone == (CacheKeys(st.cache) \cup {k}) \ CacheKeys(after)
    IN [st EXCEPT !.cache = after,
                  !.useOrder = SelectSeq(order, LAMBDA e : e \in CacheKeys(after)),
                  !.lruOk = @ /\ (stored => GhostEvictOk(order, gone, CacheKeys(after)))]

RECURSIVE ResolveTemplate(_, _, _, _)
RECURSIVE ProcessRefs(_, _, _, _, _, _)

ProcessRefsSkipped(st, node, uri, refs, kind, depth) == [st |-> st, node |-> node]

\* the loop over node.ast.imports (kind "import") or node.ast.includes
ProcessRefs(st, node, uri, refs, kind, depth) ==
    IF refs = <<>> THEN [st |-> st, node |-> node]
    ELSE
      LET ref == Head(refs)
          push(n, resolved) ==
              IF kind = "import"
              THEN [n EXCEPT !.imports = Append(@, [path |-> ref, resolvedPath |-> resolved])]
              ELSE [n EXCEPT !.includes = Append(@, [path |-> ref, resolvedPath |-> resolved])]
          fail(n, why) == [n EXCEPT !.errors = Append(@, <<kind, ref, why>>)]
      IN IF ~FileExists(ref)
         THEN ProcessRefs(st, push(fail(node, "notfound"), ""), uri, Tail(refs), kind, depth)
         ELSE
           LET st1 == [st EXCEPT !.edges = AddEdge(@, uri, ref)]
               r == ResolveTemplate(st1, ref, depth + 1, FALSE)
               node1 == IF r.threw # "none" THEN fail(node, r.threw) ELSE node
           IN ProcessRefs([r EXCEPT !.threw = "none"], push(node1, ref), uri,
                          Tail(refs), kind, depth)

ResolveTemplate(st, uri, depth, content) ==
    IF depth > options.maxDepth THEN [st EXCEPT !.threw = "depth"]
    ELSE IF SeqHas(st.stack, uri) THEN [st EXCEPT !.threw = "circular"]
    ELSE
      LET hit == options.cacheEnabled /\ CacheHas(st.cache, uri)
          st1 == IF options.cacheEnabled THEN CacheGet(st, uri) ELSE st
      IN IF hit /\ IsCacheValid(CacheValue(st.cache, uri))
         THEN [st1 EXCEPT !.ret = CacheValue(st.cache, uri)]
         ELSE
           LET st2 == IF hit THEN CacheDrop(st1, uri) ELSE st1
               st3 == [st2 EXCEPT !.stack = Append(@, uri),
                                  !.reads = IF content THEN @ ELSE @ + 1]
               node0 == CreateDependencyNode(uri, content)
               p1 == IF node0.ast
                     THEN ProcessRefs(st3, node0, uri, fs[uri].imports, "import", depth)
                     ELSE [st |-> st3, node |-> node0]
               p2 == IF node0.ast
                     THEN ProcessRefs(p1.st, p1.node, uri, fs[uri].includes, "include", depth)
                     ELSE p1
               node == [p2.node EXCEPT !.isResolved = TRUE]
               st4 == [p2.st EXCEPT !.nodes = MapSet(@, uri, node)]
               st5 == IF options.cacheEnabled THEN CacheStore(st4, uri, node) ELSE st4
           IN [st5 EXCEPT !.stack = SeqRemove(@, uri), !.ret = node]

RECURSIVE Dfs(_, _, _, _)
RECURSIVE DfsEach(_, _, _, _)

\* the dfs closure of detectCircularDependencies; d holds visited,
\* recursionStack and circularDeps
Dfs(d, edges, node, path) ==
    IF node \in d.recursionStack
    THEN [d EXCEPT !.circularDeps =
              Append(@, SubSeq(path, SeqIndex(path, node), Len(path)) \o <<node>>)]
    ELSE IF node \in d.visited THEN d
    ELSE
      LET d1 == [d EXCEPT !.visited = @ \cup {node}, !.recursionStack = @ \cup {node}]
          d2 == DfsEach(d1, edges, EdgesOf(edges, node), Append(path, node))
      IN [d2 EXCEPT !.recursionStack = @ \ {node}]

DfsEach(d, edges, neighbors, path) ==
    IF neighbors = <<>> THEN d
    ELSE DfsEach(Dfs(d, edges, Head(neighbors), path), edges, Tail(neighbors), path)

RECURSIVE DfsRoots(_, _, _)
DfsRoots(d, edges, nodeKeys) ==
    IF nodeKeys = <<>> THEN d
    ELSE DfsRoots(IF Head(nodeKeys) \in d.visited THEN d
                  ELSE Dfs(d, edges, Head(nodeKeys), <<>>),
                  edges, Tail(nodeKeys))

DetectNoCircularDependencies(nodes, edges) == <<>>

DetectCircularDependencies(nodes, edges) ==
    DfsRoots([visited |-> {}, recursionStack |-> {}, circularDeps |-> <<>>],
             edges, [i \in 1 .. Len(nodes) |-> nodes[i].key]).circularDeps

\* resolveImports(rootUri, content?) as one call; thrown is what it rejects with
ResolveImportsResult(rootUri, content) ==
    ResolveTemplate([cache |-> cache, nodes |-> <<>>, edges |-> <<>>, stack |-> <<>>,
                     useOrder |-> useOrder, lruOk |-> lruOk, reads |-> 0,
                     ret |-> <<>>, threw |-> "none"],
                    rootUri, 0, content)

ScenarioRoots == <<"a", "b", "a", "c">>

ScenNext(rootUri, content, threw) ==
    IF threw # "none" THEN -3
    ELSE IF scen >= 0 /\ scen < Len(ScenarioRoots) /\ ~content
            /\ ScenarioRoots[scen + 1] = rootUri
    THEN scen + 1 ELSE -2

ResolveImports(rootUri, content) ==
    LET r == ResolveImportsResult(rootUri, content)
    IN /\ cache' = r.cache
       /\ useOrder' = r.useOrder
       /\ lruOk' = r.lruOk
       /\ resolutionStack' = r.stack
       /\ graph' = IF r.threw # "none" THEN EmptyGraph
                   ELSE [nodes |-> r.nodes, edges |-> r.edges,
                         circularDependencies |-> DetectCircularDependencies(r.nodes, r.edges)]
       /\ scen' = ScenNext(rootUri, content, r.threw)
       /\ UNCHANGED <<capacity, configured, options, fs>>
       /\ UNCHANGED resOthers

\* invalidateCache(uri)
InvalidateCache(uri) ==
    /\ cache' = CacheDelete(cache, uri)
    /\ useOrder' = SeqRemove(useOrder, uri)
    /\ scen' = -1
    /\ UNCHANGED <<capacity, configured, options, graph, resolutionStack, fs, lruOk>>
    /\ UNCHANGED resOthers

\* invalidateCache()
InvalidateAll ==
    /\ cache' = <<>>
    /\ useOrder' = <<>>
    /\ scen' = -1
    /\ UNCHANGED <<capacity, configured, options, graph, resolutionStack, fs, lruOk>>
    /\ UNCHANGED resOthers

\* updateOptions({maxCacheSize})
UpdateMaxCacheSize(n) ==
    LET after == LRUSetMaxSize(cache, n)
    IN /\ options' = [options EXCEPT !.maxCacheSize = n]
       /\ configured' = n
       /\ capacity' = NormalizeCapacity(n)
       /\ cache' = after
       /\ useOrder' = SelectSeq(useOrder, LAMBDA e : e \in CacheKeys(after))
       /\ lruOk' = (lruOk /\ GhostEvictOk(useOrder, CacheKeys(cache) \ CacheKeys(after),
                                          CacheKeys(after)))
       /\ scen' = -1
       /\ UNCHANGED <<graph, resolutionStack, fs>>
       /\ UNCHANGED resOthers

\* updateOptions({cacheEnabled})
UpdateCacheEnabled(b) ==
    /\ options' = [options EXCEPT !.cacheEnabled = b]
    /\ cache' = IF b THEN cache ELSE <<>>
    /\ useOrder' = IF b THEN useOrder ELSE <<>>
    /\ scen' = -1
    /\ UNCHANGED <<capacity, configured, graph, resolutionStack, fs, lruOk>>
    /\ UNCHANGED resOthers

\* the file is written again: its modification time moves on
FsTouch(u) ==
    /\ fs[u].exists
    /\ fs[u].mtime < MaxMtime
    /\ fs' = [fs EXCEPT ![u].mtime = @ + 1]
    /\ scen' = -1
    /\ UNCHANGED <<cache, capacity, configured, options, graph, resolutionStack,
                   useOrder, lruOk>>
    /\ UNCHANGED resOthers

\* the file is deleted
FsRemove(u) ==
    /\ fs[u].exists
    /\ fs' = [fs EXCEPT ![u].exists = FALSE, ![u].readable = FALSE]
    /\ scen' = -1
    /\ UNCHANGED <<cache, capacity, configured, options, graph, resolutionStack,
                   useOrder, lruOk>>
    /\ UNCHANGED resOthers

Template(imports, includes) ==
    [exists |-> TRUE, readable |-> TRUE, mtime |-> 1, parseOk |-> TRUE,
     imports |-> imports, includes |-> includes, body |-> <<>>]

\* the templates on disk: no imports at all; a chain a -> b -> c whose end
\* includes a missing file; a and b importing each other; a importing itself
\* and a missing file; a importing a missing file and a file that cannot
\* be read, and including a good one; two cycles through a and c
FileShapes ==
    { [a |-> Template(<<>>, <<>>), b |-> Template(<<>>, <<>>), c |-> Template(<<>>, <<>>)],
      [a |-> Template(<<"b">>, <<>>), b |-> Template(<<"c">>, <<>>),
       c |-> Template(<<>>, <<MissingRef>>)],
      [a |-> Template(<<"b">>, <<>>), b |-> Template(<<"a">>, <<>>),
       c |-> Template(<<>>, <<"a">>)],
      [a |-> Template(<<"a", MissingRef>>, <<>>), b |-> Template(<<>>, <<"c">>),
       c |-> Template(<<>>, <<>>)],
      [a |-> Template(<<MissingRef, "b">>, <<"c">>),
       b |-> [Template(<<>>, <<>>) EXCEPT !.readable = FALSE],
       c |-> Template(<<>>, <<>>)],
      [a |-> Template(<<"b", "c">>, <<>>), b |-> Template(<<"c">>, <<>>),
       c |-> Template(<<"a">>, <<>>)] }

\* the file that is written again, and the file that is deleted
Touched == {"b"}
Removed == {"c"}

\* the sizes updateOptions is called with
ResolverSizes == {Fin(0), Fin(3), Fin(4)}

NoFiles ==
    [u \in Uris |-> [exists |-> FALSE, readable |-> FALSE, mtime |-> 0,
                     parseOk |-> FALSE, imports |-> <<>>, includes |-> <<>>,
                     body |-> <<>>]]

ResQuiet ==
    /\ options = DefaultOptions
    /\ graph = EmptyGraph
    /\ resolutionStack = <<>>
    /\ useOrder = <<>>
    /\ lruOk = TRUE
    /\ scen = -1

ResIdle == ResQuiet /\ fs = NoFiles

ResNext ==
    \/ \E u \in Uris, content \in BOOLEAN : ResolveImports(u, content)
    \/ \E u \in Uris : InvalidateCache(u)
    \/ InvalidateAll
    \/ \E n \in ResolverSizes : UpdateMaxCacheSize(n)
    \/ \E b \in BOOLEAN : UpdateCacheEnabled(b)
    \/ \E u \in Touched : FsTouch(u)
    \/ \E u \in Removed : FsRemove(u)

(***************************************************************************)
(* ErrorReporter                                                           *)
(***************************************************************************)
\* the longest list of diagnostics the reporter is driven to
MaxDiagnostics == 2

NoCode == "undefined"

\* a code that is the empty string
EmptyCode == ""

Codes == {NoCode, EmptyCode, "FTL1001"}

\* `code &&` in a condition: neither undefined nor the empty string
HasCode(code) == code # NoCode /\ code # EmptyCode

Severities == {"error", "warning"}

\* a position the producer left out
NoPosition == [present |-> FALSE, line |-> Undef, character |-> Undef, offset |-> Undef]

\* line: undefined, -1.5, 1.5, 3; character: NaN, 3; offset: Infinity, -1, 2.5
LineInputs == {Undef, Fin(-3), Fin(3), Fin(6)}
CharacterInputs == {NaN, Fin(6)}
OffsetInputs == {PosInf, Fin(-2), Fin(5)}

PositionInputs ==
    {NoPosition} \cup
    {[present |-> TRUE, line |-> l, character |-> c, offset |-> o] :
        l \in LineInputs, c \in CharacterInputs, o \in OffsetInputs}

\* a range the producer left out
NoRange == [present |-> FALSE, start |-> NoPosition, end |-> NoPosition]

RangeInputs ==
    {NoRange} \cup
    {[present |-> TRUE, start |-> s, end |-> e] : s \in PositionInputs, e \in PositionInputs}

NormalizeNumber(value, fallback, minimum) ==
    IF value.k = "undef" \/ ~IsFinite(value) THEN fallback
    ELSE IF Floor(value) < minimum THEN minimum
    ELSE Floor(value)

NormalizePosition(position) ==
    IF ~position.present THEN [line |-> 1, character |-> 1, offset |-> 0]
    ELSE [line |-> NormalizeNumber(position.line, 1, 1),
          character |-> NormalizeNumber(position.character, 1, 1),
          offset |-> NormalizeNumber(position.offset, 0, 0)]

\* range?.start, range?.end
RangeStart(range) == IF range.present THEN range.start ELSE NoPosition
RangeEnd(range) == IF range.present THEN range.end ELSE NoPosition

NormalizeRangeNoClamp(range) ==
    [start |-> NormalizePosition(RangeStart(range)),
     end |-> NormalizePosition(RangeEnd(range))]

NormalizeRange(range) ==
    LET start == NormalizePosition(RangeStart(range))
        end == NormalizePosition(RangeEnd(range))
        end1 == IF end.offset < start.offset THEN [end EXCEPT !.offset = start.offset]
                ELSE end
        end2 == IF \/ end1.line < start.line
                   \/ (end1.line = start.line /\ end1.character < start.character)
                THEN [end1 EXCEPT !.line = start.line, !.character = start.character]
                ELSE end1
    IN [start |-> start, end |-> end2]

\* addDiagnostic as a function of the list
AddDiagnosticTo(ds, suppressed, severity, range, code) ==
    IF HasCode(code) /\ code \in suppressed THEN ds
    ELSE Append(ds, [severity |-> severity, range |-> NormalizeRange(range), code |-> code])

\* addError / addWarning / addInfo with the range the producer built
AddDiagnostic(severity, code) ==
    /\ Len(diagnostics) < MaxDiagnostics
    /\ diagnostics' = AddDiagnosticTo(diagnostics, suppressedCodes, severity, rangeIn, code)
    /\ UNCHANGED <<suppressedCodes, rangeIn>>
    /\ UNCHANGED repOthers

Clear ==
    /\ diagnostics' = <<>>
    /\ UNCHANGED <<suppressedCodes, rangeIn>>
    /\ UNCHANGED repOthers

SuppressCode(code) ==
    /\ suppressedCodes' = suppressedCodes \cup {code}
    /\ UNCHANGED <<diagnostics, rangeIn>>
    /\ UNCHANGED repOthers

UnsuppressCode(code) ==
    /\ suppressedCodes' = suppressedCodes \ {code}
    /\ UNCHANGED <<diagnostics, rangeIn>>
    /\ UNCHANGED repOthers

RepIdle ==
    /\ diagnostics = <<>>
    /\ suppressedCodes = {}
    /\ rangeIn = NoRange

RepNext ==
    \/ \E s \in Severities, c \in Codes : AddDiagnostic(s, c)
    \/ Clear
    \/ \E c \in Codes \ {NoCode} : SuppressCode(c)
    \/ \E c \in Codes \ {NoCode} : UnsuppressCode(c)

(***************************************************************************)
(* FreeMarkerStaticAnalyzer.analyze                                        *)
(***************************************************************************)
\* the longest template, counted in the pieces below
MaxTemplateLen == 3

ListWithoutAs == "<#list x>"
ImportExisting == "<#import \"b\" as b/>"
ImportMissing == "<#import \"m\" as m/>"

\* the pieces a template is made of: a letter, a line break, the two ends of
\* an interpolation, a list directive the parser faults on, and two imports
Pieces == {"t", "nl", "${", "}", ListWithoutAs, ImportExisting, ImportMissing}

\* the number of characters of a piece
Width(piece) ==
    CASE piece = "${" -> 2
      [] piece = ListWithoutAs -> 9
      [] piece \in {ImportExisting, ImportMissing} -> 19
      [] OTHER -> 1

RECURSIVE PrefixWidth(_, _)
\* the offset after the first n pieces
PrefixWidth(tpl, n) == IF n = 0 THEN 0 ELSE PrefixWidth(tpl, n - 1) + Width(tpl[n])

\* ErrorReporter.createPositionFromOffset at the offset after the first n pieces
CreatePositionFromOffset(tpl, n) ==
    LET breaks == {j \in 1 .. n : tpl[j] = "nl"}
        last == IF breaks = {} THEN 0 ELSE CHOOSE j \in breaks : \A i \in breaks : i <= j
    IN [present |-> TRUE,
        line |-> Fin(2 * (Cardinality(breaks) + 1)),
        character |-> Fin(2 * (PrefixWidth(tpl, n) - PrefixWidth(tpl, last) + 1)),
        offset |-> Fin(2 * PrefixWidth(tpl, n))]

CreateRangeFromOffsets(tpl, m, n) ==
    [present |-> TRUE, start |-> CreatePositionFromOffset(tpl, m),
     end |-> CreatePositionFromOffset(tpl, n)]

RECURSIVE CheckBasicSyntaxFrom(_, _, _, _)
\* the regex loop of checkBasicSyntax from piece i on
CheckBasicSyntaxFrom(ds, suppressed, tpl, i) ==
    IF i > Len(tpl) THEN ds
    ELSE IF tpl[i] = "${" /\ ~\E j \in i .. Len(tpl) : tpl[j] = "}"
    THEN CheckBasicSyntaxFrom(
             AddDiagnosticTo(ds, suppressed, "error",
                             CreateRangeFromOffsets(tpl, i - 1, Len(tpl)), "FTL1005"),
             suppressed, tpl, i + 1)
    ELSE CheckBasicSyntaxFrom(ds, suppressed, tpl, i + 1)

CheckBasicSyntax(ds, suppressed, tpl) == CheckBasicSyntaxFrom(ds, suppressed, tpl, 1)

\* parseList throws on a list directive without "as"; the directive is
\* reached when only text precedes it
ParserThrows(tpl) ==
    \E i \in 1 .. Len(tpl) :
        /\ tpl[i] = ListWithoutAs
        /\ \A j \in 1 .. i - 1 : tpl[j] \in {"t", "nl"}

\* the position {line: 1, character: 1, offset: 0} written out in the catch
OriginPosition == [present |-> TRUE, line |-> Fin(2), character |-> Fin(2), offset |-> Fin(0)]

NoResult == [status |-> "none", ast |-> FALSE, diagnostics |-> <<>>]

\* the return statements of analyze: ast is FALSE for null
Returned(ast, ds) == [status |-> "returned", ast |-> ast, diagnostics |-> ds]

RethrowAnalysisFailure(ds, suppressed) ==
    [ds |-> ds, result |-> [status |-> "threw", ast |-> FALSE, diagnostics |-> <<>>]]

\* catch (error) at the end of analyze
CatchAnalysisFailure(ds, suppressed) ==
    LET ds1 == AddDiagnosticTo(ds, suppressed, "error",
                   [present |-> TRUE, start |-> OriginPosition, end |-> OriginPosition],
                   NoCode)
    IN [ds |-> ds1, result |-> Returned(FALSE, ds1)]

\* catch (parseError) around parser.parse()
CatchParseError(ds, suppressed, tpl) ==
    LET ds1 == AddDiagnosticTo(ds, suppressed, "error",
                   CreateRangeFromOffsets(tpl, 0, Len(tpl)), "FTL1001")
    IN [ds |-> ds1, result |-> Returned(FALSE, ds1)]

\* analyze(template, filePath); raised names the stage in which a run-time
\* exception is raised, besides the exception the parser throws by itself
AnalyzeOutcome(suppressed, tpl, path, raised) ==
    LET ds1 == CheckBasicSyntax(<<>>, suppressed, tpl)
    IN IF raised = "lexing" THEN CatchAnalysisFailure(ds1, suppressed)
       ELSE IF raised = "parsing" \/ ParserThrows(tpl) THEN CatchParseError(ds1, suppressed, tpl)
       ELSE IF raised = "semantic" THEN CatchAnalysisFailure(ds1, suppressed)
       ELSE [ds |-> ds1, result |-> Returned(TRUE, ds1)]

Analyze ==
    LET out == AnalyzeOutcome(suppressedCodes, template, filePath, fault)
    IN /\ diagnostics' = out.ds
       /\ result' = out.result
       /\ UNCHANGED <<suppressedCodes, rangeIn, template, filePath, fault>>
       /\ UNCHANGED anaOthers

\* clearDiagnostics()
ClearDiagnostics ==
    /\ diagnostics' = <<>>
    /\ UNCHANGED <<suppressedCodes, rangeIn, template, filePath, fault, result>>
    /\ UNCHANGED anaOthers

NoFilePath == "undefined"

Faults == {"none", "lexing", "parsing", "semantic"}

RECURSIVE TemplatesOfLen(_)
TemplatesOfLen(n) ==
    IF n = 0 THEN {<<>>}
    ELSE {Append(t, p) : t \in TemplatesOfLen(n - 1), p \in Pieces}

Templates == UNION {TemplatesOfLen(n) : n \in 0 .. MaxTemplateLen}

\* the files beside the analysed file "a": "b" imports a file that is missing
AnalyzerFiles ==
    [a |-> Template(<<>>, <<>>), b |-> Template(<<MissingRef>>, <<>>),
     c |-> Template(<<>>, <<>>)]

AnaIdle ==
    /\ template = <<>>
    /\ filePath = NoFilePath
    /\ fault = "none"
    /\ result = NoResult

AnaNext ==
    \/ Analyze
    \/ ClearDiagnostics

(***************************************************************************)
(* SemanticAnalyzer: one step of the model is one visit of a node          *)
(***************************************************************************)
\* the deepest nesting of bodies under analysis, and of analyses of files
MaxNesting == 6
MaxChain == 4

Nil == <<>>

\* expressions
Variable(v) == [type |-> "Variable", name |-> v, args |-> <<>>]
Exists(e) == [type |-> "Exists", name |-> "??", args |-> <<e>>]
BuiltIn(b, e) == [type |-> "BuiltIn", name |-> b, args |-> <<e>>]
Binary(op, l, r) == [type |-> "BinaryExpression", name |-> op, args |-> <<l, r>>]
Unary(op, e) == [type |-> "UnaryExpression", name |-> op, args |-> <<e>>]
Literal == [type |-> "Literal", name |-> "1", args |-> <<>>]

\* statements; at names the place of the statement in its template, and expr
\* is the condition of an if, the expression of an interpolation, the value
\* of the argument of a macro call
Stmt(type, name, at) ==
    [type |-> type, name |-> name, at |-> at, parameters |-> <<>>, expr |-> Literal,
     body |-> <<>>, hasElse |-> FALSE, elseBody |-> <<>>]

Assignment(v, at) == Stmt("Assignment", v, at)
Interpolation(e, at) == [Stmt("Interpolation", "", at) EXCEPT !.expr = e]
MacroCall(m, at) == Stmt("MacroCall", m, at)
MacroCallWith(m, arg, at) == [Stmt("MacroCall", m, at) EXCEPT !.expr = arg]
Macro(m, params, body, at) == [Stmt("Macro", m, at) EXCEPT !.parameters = params, !.body = body]
IfElse(cond, thenBody, elseBody, at) ==
    [Stmt("If", "", at) EXCEPT !.expr = cond, !.body = thenBody,
                               !.hasElse = TRUE, !.elseBody = elseBody]
\* a list directive whose loop variable is item, over a literal
List(item, body, at) == [Stmt("List", item, at) EXCEPT !.body = body]
\* a switch directive with one case, whose value is a literal, and a default case
Switch(expr, caseBody, defaultCase, at) ==
    [Stmt("Switch", "", at) EXCEPT !.expr = expr, !.body = caseBody,
                                   !.hasElse = TRUE, !.elseBody = defaultCase]

\* a scope: the names in its variables table (macros are looked up below)
Scope(type, variables) == [type |-> type, variables |-> variables]

\* findVariable: walk from the current scope (the last) up the parents
FindVariable(scopes, name) == \E i \in 1 .. Len(scopes) : name \in scopes[i].variables

RECURSIVE UndefinedIn(_, _, _)
\* analyzeExpression: the undefined variables it reports, in order
UndefinedIn(scopes, expr, ignoreUndefined) ==
    CASE expr.type = "Variable" ->
            IF FindVariable(scopes, expr.name) \/ ignoreUndefined THEN <<>>
            ELSE <<expr.name>>
      [] expr.type \in {"Exists", "BuiltIn"} -> UndefinedIn(scopes, expr.args[1], TRUE)
      [] expr.type = "UnaryExpression" -> UndefinedIn(scopes, expr.args[1], FALSE)
      [] expr.type = "BinaryExpression" ->
            UndefinedIn(scopes, expr.args[1], FALSE) \o UndefinedIn(scopes, expr.args[2], FALSE)
      [] OTHER -> <<>>

ExtractNothing(expr) == <<>>

RECURSIVE ExtractDefinedVariables(_)
ExtractDefinedVariables(expr) ==
    CASE expr.type = "Exists" ->
            IF expr.args[1].type = "Variable" THEN <<expr.args[1].name>> ELSE <<>>
      [] expr.type = "BuiltIn" ->
            IF expr.name = "has_content" /\ expr.args[1].type = "Variable"
            THEN <<expr.args[1].name>> ELSE <<>>
      [] expr.type = "BinaryExpression" ->
            ExtractDefinedVariables(expr.args[1]) \o ExtractDefinedVariables(expr.args[2])
      [] OTHER -> <<>>

SeqToSet(q) == {q[i] : i \in 1 .. Len(q)}

\* Map.set on a table kept as a function
Put(m, k, v) == [x \in DOMAIN m \cup {k} |-> IF x = k THEN v ELSE m[x]]

EmptyMap == [x \in {} |-> Nil]

\* FTL2001 for each undefined variable of a statement
UndefinedErrors(names, at) == [i \in 1 .. Len(names) |-> <<"FTL2001", names[i], at>>]

MacroNames == {"first", "second"}

\* `${alias}.${name}`
Namespaced(alias, name) ==
    CASE alias = "a" /\ name = "first" -> "a.first"
      [] alias = "a" /\ name = "second" -> "a.second"
      [] alias = "b" /\ name = "first" -> "b.first"
      [] alias = "b" /\ name = "second" -> "b.second"
      [] alias = "c" /\ name = "first" -> "c.first"
      [] alias = "c" /\ name = "second" -> "c.second"
      [] OTHER -> name

\* the fields of a SemanticAnalyzer that outlive one analyze call
NewAnalyzer == [processing |-> {}, completed |-> {}, cache |-> {}]

EmptySemanticInfo == [variables |-> {}, macros |-> EmptyMap, imports |-> <<>>, includes |-> <<>>]

\* a frame of the walk: the statements still to visit in one body
Frame(kind, todo, node, stmt) == [kind |-> kind, todo |-> todo, node |-> node, stmt |-> stmt]

NoStmt == Stmt("None", "", "")

PredeclareNothing(macros, path, body) == macros

\* declareMacro for the Macro children of a body, in order
RECURSIVE Predeclare(_, _, _)
Predeclare(macros, path, body) ==
    IF body = <<>> THEN macros
    ELSE LET s == Head(body)
         IN Predeclare(IF s.type = "Macro"
                       THEN Put(macros, s.name, [node |-> <<path, s.at>>,
                                                 parameters |-> s.parameters,
                                                 body |-> s.body])
                       ELSE macros,
                       path, Tail(body))

\* analyzeTemplate between its loops: when the imports are done the includes
\* follow, and when those are done the macros are declared and the body starts
Advance(act) ==
    IF act.phase = "imports" /\ act.imports # <<>> THEN act
    ELSE IF act.phase \in {"imports", "includes"} /\ act.includes # <<>>
    THEN [act EXCEPT !.phase = "includes"]
    ELSE IF act.phase \in {"imports", "includes"}
    THEN [act EXCEPT !.phase = "body",
                     !.macros = Predeclare(@, act.path, fs[act.path].body),
                     !.ctrl = <<Frame("template", fs[act.path].body, Nil, NoStmt)>>]
    ELSE act

\* analyze(ast, path) on the analyzer inst up to the walk of the tree
BeginAnalyze(inst, path) ==
    LET completed == IF inst.processing = {} THEN {} ELSE inst.completed
    IN IF path \in inst.processing
       THEN [outcome |-> "circular",
             inst |-> [inst EXCEPT !.completed = completed],
             errors |-> <<<<"circular", path, "">>>>]
       ELSE IF path \in completed /\ path \in inst.cache
       THEN [outcome |-> "cached",
             inst |-> [inst EXCEPT !.completed = completed],
             errors |-> <<>>]
       ELSE [outcome |-> "run",
             inst |-> [inst EXCEPT !.completed = completed, !.processing = @ \cup {path}],
             errors |-> <<>>]

\* the analysis of one file in progress
Activation(inst, path) ==
    Advance([path |-> path, inst |-> inst, phase |-> "imports",
             imports |-> fs[path].imports, includes |-> fs[path].includes,
             ctrl |-> <<>>, scopes |-> <<Scope("global", {})>>,
             macros |-> EmptyMap, variables |-> {}, infoImports |-> <<>>,
             infoIncludes |-> <<>>, active |-> {}, errors |-> <<>>, unresolved |-> <<>>])

Top == chain[Len(chain)]

TopFrame == Top.ctrl[Len(Top.ctrl)]

SetTop(act) == [chain EXCEPT ![Len(chain)] = act]

InBody == chain # <<>> /\ Top.phase = "body" /\ Top.ctrl # <<>>

AtStatement(type) == InBody /\ TopFrame.todo # <<>> /\ Head(TopFrame.todo).type = type

\* the top activation with the statement at hand taken off its body
Consumed == [Top EXCEPT !.ctrl[Len(Top.ctrl)].todo = Tail(@)]

PushFrame(act, frame, scope) ==
    [act EXCEPT !.ctrl = Append(@, frame), !.scopes = Append(@, scope)]

PopFrame(act) ==
    [act EXCEPT !.ctrl = SubSeq(@, 1, Len(@) - 1), !.scopes = SubSeq(@, 1, Len(@) - 1)]

\* findMacro, then semanticInfo.macros: the macros of a template all sit in
\* the global scope, declared before the body is walked, and every scope
\* under it copies them; the body of a macro that came from another file
\* calls no macro here, so contextMacros never decides a lookup
FindMacro(act, name) == name \in DOMAIN act.macros

\* the file whose analysis the caller asks for
SemRoot == "a"

NoSemResult == [status |-> "none", errors |-> <<>>, info |-> EmptySemanticInfo]

File(imports, includes, body) == [Template(imports, includes) EXCEPT !.body = body]

Project(a, b, c) == [a |-> a, b |-> b, c |-> c]

Plain == File(<<>>, <<>>, <<>>)

\* templates whose macros call each other, themselves (with an argument that
\* is defined, and with one that is not), a macro defined further down, a
\* macro that is defined nowhere, and a macro that assigns inside an if
MacroProjects ==
    { Project(File(<<>>, <<>>,
                   <<Macro("first", <<>>, <<MacroCall("second", "f1")>>, "d1"),
                     Macro("second", <<>>, <<MacroCall("first", "s1")>>, "d2"),
                     MacroCall("first", "c1")>>), Plain, Plain),
      Project(File(<<>>, <<>>,
                   <<Macro("first", <<"p">>,
                           <<Assignment("v", "f0"),
                             MacroCallWith("first", Variable("p"), "f1")>>, "d1"),
                     MacroCall("first", "c1"),
                     Interpolation(Variable("v"), "after"),
                     Interpolation(Variable("p"), "after")>>), Plain, Plain),
      Project(File(<<>>, <<>>,
                   <<Macro("first", <<>>,
                           <<MacroCallWith("first", Variable("u"), "f1")>>, "d1"),
                     MacroCall("first", "c1")>>), Plain, Plain),
      Project(File(<<>>, <<>>,
                   <<MacroCall("second", "c0"),
                     Macro("first", <<>>, <<MacroCall("second", "f1")>>, "d1"),
                     Macro("second", <<>>,
                           <<Assignment("v", "s0"), MacroCall("third", "s1")>>, "d2"),
                     Interpolation(Variable("v"), "after")>>), Plain, Plain),
      Project(File(<<>>, <<>>,
                   <<Macro("first", <<>>, <<MacroCall("second", "f1")>>, "d1"),
                     Macro("second", <<>>, <<Interpolation(Literal, "s0")>>, "d2"),
                     MacroCall("first", "c1")>>), Plain, Plain),
      Project(File(<<>>, <<>>,
                   <<MacroCall("first", "c1"),
                     Macro("second", <<>>, <<Interpolation(Literal, "s0")>>, "d2"),
                     Macro("first", <<>>, <<MacroCall("second", "f1")>>, "d1")>>),
              Plain, Plain),
      Project(File(<<>>, <<>>,
                   <<Macro("first", <<>>,
                           <<IfElse(Literal, <<Assignment("v", "t0")>>, <<>>, "if")>>, "d1"),
                     MacroCall("first", "c1"),
                     Interpolation(Variable("v"), "after")>>), Plain, Plain) }

\* the conditions of the if directives
Conditions ==
    { Exists(Variable("x")),
      BuiltIn("has_content", Variable("x")),
      Binary("&&", Exists(Variable("x")), Exists(Variable("y"))),
      Binary("&&", BuiltIn("has_content", Variable("y")),
                   Binary("&&", Exists(Variable("x")), Literal)),
      Binary("||", Exists(Variable("x")), Exists(Variable("y"))),
      Unary("!", Exists(Variable("x"))),
      BuiltIn("length", Variable("x")),
      Variable("x") }

\* an if with an else, the variable v used in both branches and after it,
\* and, when early holds, given a value before it
IfBody(cond, v, early) ==
    (IF early THEN <<Assignment(v, "before")>> ELSE <<>>) \o
    <<IfElse(cond, <<Interpolation(Variable(v), "then")>>,
             <<Interpolation(Variable(v), "else")>>, "if"),
      Interpolation(Variable(v), "after")>>

IfProjects ==
    { Project(File(<<>>, <<>>, IfBody(cond, v, early)), Plain, Plain) :
        cond \in Conditions, v \in {"x", "y"}, early \in BOOLEAN }

\* files that import and include each other, themselves, a file twice,
\* a missing file and a file that cannot be read
ImportProjects ==
    { Project(File(<<"b">>, <<>>, <<>>), File(<<"a">>, <<>>, <<>>), Plain),
      Project(File(<<"a">>, <<>>, <<>>), Plain, Plain),
      Project(File(<<>>, <<"b">>, <<>>), File(<<>>, <<"c">>, <<>>), File(<<"a">>, <<>>, <<>>)),
      Project(File(<<"b", "b">>, <<"c">>, <<MacroCall("b.first", "c1"),
                                            Interpolation(Variable("x"), "after")>>),
              File(<<>>, <<>>, <<Macro("first", <<>>, <<Assignment("w", "f0")>>, "d1")>>),
              File(<<>>, <<>>, <<Assignment("x", "c0")>>)),
      Project(File(<<MissingRef>>, <<"c">>, <<>>), Plain,
              [File(<<>>, <<>>, <<>>) EXCEPT !.readable = FALSE]) }

\* a body that holds the assignment of a variable, and nothing else
Bodies(v) ==
    { IfElse(Literal, <<Assignment(v, "in")>>, <<>>, "if"),
      IfElse(Literal, <<>>, <<Assignment(v, "in")>>, "if"),
      List("item", <<Assignment(v, "in")>>, "list"),
      List("item", <<IfElse(Literal, <<Assignment(v, "in")>>, <<>>, "if")>>, "list"),
      Switch(Literal, <<Assignment(v, "in")>>, <<>>, "switch"),
      Switch(Literal, <<>>, <<Assignment(v, "in")>>, "switch"),
      Switch(Variable("u"), <<List("item", <<Assignment(v, "in")>>, "list")>>, <<>>, "switch"),
      Macro("first", <<>>, <<Assignment(v, "in")>>, "d1") }

\* templates that give a variable its value inside a body and use the
\* variable, and the loop variable of a list, after the body
BodyProjects ==
    { Project(File(<<>>, <<>>, <<b, Interpolation(Variable(v), "after")>>), Plain, Plain) :
        b \in Bodies("v"), v \in {"v", "item"} }

SemProjects == MacroProjects \cup IfProjects \cup ImportProjects \cup BodyProjects

SemIdle ==
    /\ chain = <<>>
    /\ visited = {}
    /\ rootInst = NewAnalyzer
    /\ semResult = NoSemResult
    /\ seen = {}

\* what analyzeImport / analyzeInclude do with the info loadExternalTemplate gave
MergeInfo(act, kind, ref, info) ==
    IF kind = "imports"
    THEN LET added == {Namespaced(ref, n) : n \in DOMAIN info.macros}
         IN [act EXCEPT !.macros =
                 [x \in DOMAIN act.macros \cup added |->
                     IF x \in added
                     THEN info.macros[CHOOSE n \in DOMAIN info.macros : Namespaced(ref, n) = x]
                     ELSE act.macros[x]]]
    ELSE LET fresh == info.variables \ act.scopes[Len(act.scopes)].variables
         IN [act EXCEPT !.macros =
                 [x \in DOMAIN act.macros \cup DOMAIN info.macros |->
                     IF x \in DOMAIN info.macros THEN info.macros[x] ELSE act.macros[x]],
                        !.scopes[Len(act.scopes)].variables = @ \cup fresh,
                        !.variables = @ \cup fresh]

\* the reference at hand is done with: on to the next one
NextReference(act) ==
    Advance(IF act.phase = "imports" THEN [act EXCEPT !.imports = Tail(@)]
            ELSE [act EXCEPT !.includes = Tail(@)])

\* analyzeImport / analyzeInclude up to the call of analyze on the new analyzer
LoadStep(kind) ==
    LET ref == IF kind = "imports" THEN Head(Top.imports) ELSE Head(Top.includes)
        noted == IF kind = "imports" THEN [Top EXCEPT !.infoImports = Append(@, ref)]
                 ELSE [Top EXCEPT !.infoIncludes = Append(@, ref)]
    IN IF ~FileExists(ref)
       THEN /\ chain' = SetTop(NextReference(noted))
            /\ seen' = seen \cup {"unresolved reference"}
            /\ UNCHANGED visited
       ELSE IF ref \in visited
       THEN /\ chain' = SetTop(NextReference(noted))
            /\ seen' = seen \cup {"visited"}
            /\ UNCHANGED visited
       ELSE IF ~fs[ref].readable \/ ~fs[ref].parseOk
       THEN /\ chain' = SetTop(NextReference(noted))
            /\ seen' = seen \cup {"load failed"}
            /\ UNCHANGED visited
       ELSE LET b == BeginAnalyze(NewAnalyzer, ref)
            IN IF b.outcome = "run"
               THEN /\ Len(chain) < MaxChain
                    /\ chain' = Append(SetTop(noted), Activation(b.inst, ref))
                    /\ visited' = visited \cup {ref}
                    /\ seen' = seen \cup {"entered"}
               ELSE /\ chain' = SetTop(NextReference(MergeInfo(noted, kind, ref,
                                                               EmptySemanticInfo)))
                    /\ seen' = seen \cup {b.outcome}
                    /\ UNCHANGED visited

\* analyze(ast, filePath) called on the analyzer the caller holds
SemAnalyze ==
    /\ chain = <<>>
    /\ LET b == BeginAnalyze(rootInst, SemRoot)
       IN IF b.outcome = "run"
          THEN /\ chain' = <<Activation(b.inst, SemRoot)>>
               /\ rootInst' = b.inst
               /\ semResult' = [status |-> "running", errors |-> <<>>,
                                info |-> EmptySemanticInfo]
               /\ seen' = {}
          ELSE /\ chain' = <<>>
               /\ rootInst' = b.inst
               /\ semResult' = [status |-> "done", errors |-> b.errors,
                                info |-> EmptySemanticInfo]
               /\ seen' = {b.outcome}
    /\ visited' = {}
    /\ UNCHANGED fs
    /\ UNCHANGED semOthers

StepImport ==
    /\ chain # <<>> /\ Top.phase = "imports"
    /\ LoadStep("imports")
    /\ UNCHANGED <<rootInst, semResult, fs>>
    /\ UNCHANGED semOthers

StepInclude ==
    /\ chain # <<>> /\ Top.phase = "includes"
    /\ LoadStep("includes")
    /\ UNCHANGED <<rootInst, semResult, fs>>
    /\ UNCHANGED semOthers

\* reportUnresolvedMacros
UnresolvedErrors(act) ==
    LET missing == SelectSeq(act.unresolved, LAMBDA s : s.name \notin DOMAIN act.macros)
    IN [i \in 1 .. Len(missing) |-> <<"FTL2004", missing[i].name, missing[i].at>>]

FinallyKeepsProcessing(inst, path) ==
    [inst EXCEPT !.completed = @ \cup {path}, !.cache = @ \cup {path}]

\* the finally block of analyze
Finally(inst, path) ==
    [inst EXCEPT !.processing = @ \ {path},
                 !.completed = @ \cup {path},
                 !.cache = @ \cup {path}]

\* the end of analyze: the finally block, reportUnresolvedMacros and the
\* return to the caller, which is analyzeImport / analyzeInclude of the
\* analysis below or the caller of the whole analysis
SemFinish ==
    /\ InBody /\ TopFrame.kind = "template" /\ TopFrame.todo = <<>>
    /\ LET act == Top
           inst == Finally(act.inst, act.path)
           errors == act.errors \o UnresolvedErrors(act)
           info == [variables |-> act.variables, macros |-> act.macros,
                    imports |-> act.infoImports, includes |-> act.infoIncludes]
       IN IF Len(chain) = 1
          THEN /\ chain' = <<>>
               /\ rootInst' = inst
               /\ semResult' = [status |-> "done", errors |-> errors, info |-> info]
               /\ UNCHANGED visited
          ELSE LET parent == chain[Len(chain) - 1]
               IN /\ chain' = Append(SubSeq(chain, 1, Len(chain) - 2),
                                     NextReference(MergeInfo(parent, parent.phase,
                                                             act.path, info)))
                  /\ visited' = visited \ {act.path}
                  /\ UNCHANGED <<rootInst, semResult>>
    /\ UNCHANGED <<seen, fs>>
    /\ UNCHANGED semOthers

StepAssignment ==
    /\ AtStatement("Assignment")
    /\ LET s == Head(TopFrame.todo)
       IN chain' = SetTop([Consumed EXCEPT !.scopes[Len(Top.scopes)].variables = @ \cup {s.name},
                                           !.variables = @ \cup {s.name}])
    /\ UNCHANGED <<visited, rootInst, semResult, seen, fs>>
    /\ UNCHANGED semOthers

StepInterpolation ==
    /\ AtStatement("Interpolation")
    /\ LET s == Head(TopFrame.todo)
       IN chain' = SetTop([Consumed EXCEPT !.errors =
                      @ \o UndefinedErrors(UndefinedIn(Top.scopes, s.expr, FALSE), s.at)])
    /\ UNCHANGED <<visited, rootInst, semResult, seen, fs>>
    /\ UNCHANGED semOthers

\* analyzeMacro: the definition is walked once where it stands
StepMacro ==
    /\ AtStatement("Macro")
    /\ Len(Top.ctrl) < MaxNesting
    /\ LET s == Head(TopFrame.todo)
           declared == [Consumed EXCEPT !.macros =
                           Put(@, s.name, [node |-> <<Top.path, s.at>>,
                                           parameters |-> s.parameters, body |-> s.body])]
       IN chain' = SetTop(PushFrame(declared, Frame("macro", s.body, Nil, NoStmt),
                                    Scope("macro", SeqToSet(s.parameters))))
    /\ UNCHANGED <<visited, rootInst, semResult, seen, fs>>
    /\ UNCHANGED semOthers

IsActiveNever(act, node) == FALSE

\* this.activeMacroNodes.has(macroNode)
IsActive(act, node) == node \in act.active

StepMacroCall ==
    /\ AtStatement("MacroCall")
    /\ LET s == Head(TopFrame.todo)
           \* the arguments are analysed before the macro is looked up
           checked == [Consumed EXCEPT !.errors =
                          @ \o UndefinedErrors(UndefinedIn(Top.scopes, s.expr, FALSE), s.at)]
       IN IF FindMacro(Top, s.name)
          THEN LET macro == Top.macros[s.name]
               IN IF IsActive(Top, macro.node)
                  THEN /\ chain' = SetTop(checked)
                       /\ seen' = seen \cup {"skipped"}
                  ELSE /\ Len(Top.ctrl) < MaxNesting
                       /\ chain' = SetTop(PushFrame(
                              [checked EXCEPT !.active = @ \cup {macro.node}],
                              Frame("call", macro.body, macro.node, NoStmt),
                              Scope("macro", SeqToSet(macro.parameters))))
                       /\ seen' = seen \cup {"expanded"}
          ELSE /\ chain' = SetTop([checked EXCEPT !.unresolved = Append(@, s)])
               /\ seen' = seen \cup {"unresolved call"}
    /\ UNCHANGED <<visited, rootInst, semResult, fs>>
    /\ UNCHANGED semOthers

StepIf ==
    /\ AtStatement("If")
    /\ Len(Top.ctrl) < MaxNesting
    /\ LET s == Head(TopFrame.todo)
           checked == [Consumed EXCEPT !.errors =
                          @ \o UndefinedErrors(UndefinedIn(Top.scopes, s.expr, FALSE), s.at)]
       IN chain' = SetTop(PushFrame(checked, Frame("then", s.body, Nil, s),
                              Scope("local", SeqToSet(ExtractDefinedVariables(s.expr)))))
    /\ UNCHANGED <<visited, rootInst, semResult, seen, fs>>
    /\ UNCHANGED semOthers

\* analyzeList: the body is walked in a loop scope that holds the item
StepList ==
    /\ AtStatement("List")
    /\ Len(Top.ctrl) < MaxNesting
    /\ LET s == Head(TopFrame.todo)
           checked == [Consumed EXCEPT !.errors =
                          @ \o UndefinedErrors(UndefinedIn(Top.scopes, s.expr, FALSE), s.at)]
       IN chain' = SetTop(PushFrame(checked, Frame("list", s.body, Nil, NoStmt),
                                    Scope("loop", {s.name})))
    /\ UNCHANGED <<visited, rootInst, semResult, seen, fs>>
    /\ UNCHANGED semOthers

\* analyzeSwitch: the expression, then the children of the case and of the
\* default case, visited one after the other in the scope the switch is in
StepSwitch ==
    /\ AtStatement("Switch")
    /\ LET s == Head(TopFrame.todo)
           checked == [Consumed EXCEPT !.errors =
                          @ \o UndefinedErrors(UndefinedIn(Top.scopes, s.expr, FALSE), s.at)]
       IN chain' = SetTop([checked EXCEPT !.ctrl[Len(Top.ctrl)].todo =
                                              s.body \o s.elseBody \o @])
    /\ UNCHANGED <<visited, rootInst, semResult, seen, fs>>
    /\ UNCHANGED semOthers

\* the code after the loop over a body other than the template's
ExitFrame ==
    /\ InBody /\ TopFrame.todo = <<>> /\ TopFrame.kind # "template"
    /\ LET f == TopFrame
           inner == Top.scopes[Len(Top.scopes)]
           popped == PopFrame(Top)
           outer == popped.scopes[Len(popped.scopes)]
           promoted == inner.variables \ outer.variables
       IN chain' = SetTop(
              CASE f.kind = "call" ->
                      [popped EXCEPT !.active = @ \ {f.node},
                                     !.scopes[Len(popped.scopes)].variables = @ \cup promoted,
                                     !.variables = @ \cup promoted]
                [] f.kind = "then" /\ f.stmt.hasElse ->
                      PushFrame(popped, Frame("else", f.stmt.elseBody, Nil, NoStmt),
                                Scope("local", {}))
                [] OTHER -> popped)
    /\ UNCHANGED <<visited, rootInst, semResult, seen, fs>>
    /\ UNCHANGED semOthers

SemNext ==
    \/ SemAnalyze
    \/ StepImport
    \/ StepInclude
    \/ StepAssignment
    \/ StepInterpolation
    \/ StepMacro
    \/ StepMacroCall
    \/ StepIf
    \/ StepList
    \/ StepSwitch
    \/ ExitFrame
    \/ SemFinish

\* an exception raised while the tree of the file on top is walked: the
\* finally block of analyze runs; loadExternalTemplate catches the exception
\* of an imported or included file and answers with nothing, the exception
\* of the analysed file itself reaches the caller
SemThrow ==
    /\ chain # <<>>
    /\ LET act == Top
           inst == Finally(act.inst, act.path)
       IN IF Len(chain) = 1
          THEN /\ chain' = <<>>
               /\ rootInst' = inst
               /\ semResult' = [status |-> "threw", errors |-> <<>>,
                                info |-> EmptySemanticInfo]
               /\ UNCHANGED visited
          ELSE /\ chain' = Append(SubSeq(chain, 1, Len(chain) - 2),
                                  NextReference(chain[Len(chain) - 1]))
               /\ visited' = visited \ {act.path}
               /\ UNCHANGED <<rootInst, semResult>>
    /\ seen' = seen \cup {"threw"}
    /\ UNCHANGED fs
    /\ UNCHANGED semOthers

SemFaultyNext ==
    \/ SemNext
    \/ SemThrow

(***************************************************************************)
(* ImportResolver with calls in flight: one step of the model is what one  *)
(* resolveImports call does between two of its awaits                      *)
(***************************************************************************)
CallIds == {1, 2}

NoNode == [uri |-> "", content |-> FALSE, ast |-> FALSE, imports |-> <<>>,
           includes |-> <<>>, isResolved |-> FALSE, lastModified |-> 0, errors |-> <<>>]

NoCall == [pc |-> "idle", root |-> "", frames |-> <<>>, result |-> EmptyGraph]

\* one resolveTemplate call that has not returned: where it waits, its node,
\* the cached node it is validating, the references it has still to resolve
ConFrame(uri, depth, pc, cached) ==
    [uri |-> uri, depth |-> depth, pc |-> pc, node |-> NoNode, cached |-> cached,
     todo |-> <<>>]

\* the fields of the resolver that every call reads and writes
ConShared ==
    [cache |-> cache, stack |-> resolutionStack, nodes |-> graph.nodes,
     edges |-> graph.edges, useOrder |-> useOrder, lruOk |-> lruOk]

ConOut(sh, frames, threw) == [sh |-> sh, frames |-> frames, threw |-> threw]

\* resolveTemplate from its first line to its first await
ConEnter(sh, frames, uri, depth) ==
    IF depth > options.maxDepth THEN ConOut(sh, frames, "depth")
    ELSE IF SeqHas(sh.stack, uri) THEN ConOut(sh, frames, "circular")
    ELSE IF options.cacheEnabled /\ CacheHas(sh.cache, uri)
    THEN ConOut(CacheGet(sh, uri),
                Append(frames, ConFrame(uri, depth, "validate", CacheValue(sh.cache, uri))),
                "none")
    ELSE ConOut([sh EXCEPT !.stack = Append(@, uri)],
                Append(frames, ConFrame(uri, depth, "create", NoNode)), "none")

\* a resolveTemplate call has returned: its caller goes on after its await
ConAfterReturn(frames) ==
    IF frames = <<>> THEN frames
    ELSE [frames EXCEPT ![Len(frames)].pc =
             IF frames[Len(frames)].todo = <<>> THEN "finish" ELSE "refs"]

\* the lines after the two loops, up to the return
ConFinish(sh, frames) ==
    LET f == frames[Len(frames)]
        node == [f.node EXCEPT !.isResolved = TRUE]
        sh1 == [sh EXCEPT !.nodes = MapSet(@, f.uri, node)]
        sh2 == IF options.cacheEnabled THEN CacheStore(sh1, f.uri, node) ELSE sh1
    IN ConOut([sh2 EXCEPT !.stack = SeqRemove(@, f.uri)],
              ConAfterReturn(SubSeq(frames, 1, Len(frames) - 1)), "none")

\* no await stands between the last reference and the lines after the loops
ConSettle(sh, frames) ==
    IF frames[Len(frames)].todo = <<>> THEN ConFinish(sh, frames)
    ELSE ConOut(sh, [frames EXCEPT ![Len(frames)].pc = "refs"], "none")

\* after await isCacheValid(cached)
ConValidateStep(sh, frames) ==
    LET f == frames[Len(frames)]
    IN IF IsCacheValid(f.cached)
       THEN ConOut(sh, ConAfterReturn(SubSeq(frames, 1, Len(frames) - 1)), "none")
       ELSE ConOut([CacheDrop(sh, f.uri) EXCEPT !.stack = Append(@, f.uri)],
                   [frames EXCEPT ![Len(frames)].pc = "create"], "none")

ConTodo(uri) ==
    [i \in 1 .. Len(fs[uri].imports) |-> <<"import", fs[uri].imports[i]>>] \o
    [i \in 1 .. Len(fs[uri].includes) |-> <<"include", fs[uri].includes[i]>>]

\* after await createDependencyNode
ConCreateStep(sh, frames) ==
    LET f == frames[Len(frames)]
        node == CreateDependencyNode(f.uri, FALSE)
    IN ConSettle(sh, [frames EXCEPT ![Len(frames)].node = node,
                                    ![Len(frames)].todo =
                                        IF node.ast THEN ConTodo(f.uri) ELSE <<>>])

\* after await resolveImportPath / resolveIncludePath for the next reference
ConRefStep(sh, frames) ==
    LET f == frames[Len(frames)]
        kind == Head(f.todo)[1]
        ref == Head(f.todo)[2]
        push(n, resolved) ==
            IF kind = "import"
            THEN [n EXCEPT !.imports = Append(@, [path |-> ref, resolvedPath |-> resolved])]
            ELSE [n EXCEPT !.includes = Append(@, [path |-> ref, resolvedPath |-> resolved])]
        fail(n, why) == [n EXCEPT !.errors = Append(@, <<kind, ref, why>>)]
        with(n) == [frames EXCEPT ![Len(frames)].node = n, ![Len(frames)].todo = Tail(@)]
    IN IF ~FileExists(ref)
       THEN ConSettle(sh, with(push(fail(f.node, "notfound"), "")))
       ELSE LET sh1 == [sh EXCEPT !.edges = AddEdge(@, f.uri, ref)]
                e == ConEnter(sh1, with(push(f.node, ref)), ref, f.depth + 1)
            IN IF e.threw = "none" THEN e
               ELSE ConSettle(sh1, with(push(fail(f.node, e.threw), ref)))

\* what a step of the call c leaves behind
ConApply(c, out) ==
    /\ cache' = out.sh.cache
    /\ resolutionStack' = out.sh.stack
    /\ graph' = [graph EXCEPT !.nodes = out.sh.nodes, !.edges = out.sh.edges]
    /\ useOrder' = out.sh.useOrder
    /\ lruOk' = out.sh.lruOk
    /\ calls' = [calls EXCEPT ![c].frames = out.frames,
                              ![c].pc = IF out.frames = <<>> THEN "returning" ELSE "running"]

ConAt(c, pc) ==
    /\ calls[c].pc = "running"
    /\ calls[c].frames[Len(calls[c].frames)].pc = pc

\* resolveImports(rootUri) up to the first await of resolveTemplate
ConStart(c, rootUri) ==
    /\ calls[c].pc = "idle"
    /\ LET sh == [ConShared EXCEPT !.stack = <<>>, !.nodes = <<>>, !.edges = <<>>]
           out == ConEnter(sh, <<>>, rootUri, 0)
       IN /\ cache' = out.sh.cache
          /\ resolutionStack' = out.sh.stack
          /\ graph' = EmptyGraph
          /\ useOrder' = out.sh.useOrder
          /\ lruOk' = out.sh.lruOk
          /\ calls' = [calls EXCEPT ![c] = [pc |-> IF out.threw = "none" THEN "running"
                                                   ELSE "rejected",
                                            root |-> rootUri, frames |-> out.frames,
                                            result |-> EmptyGraph]]
    /\ UNCHANGED <<capacity, configured, options, fs, scen>>
    /\ UNCHANGED conOthers

ConValidate(c) ==
    /\ ConAt(c, "validate")
    /\ ConApply(c, ConValidateStep(ConShared, calls[c].frames))
    /\ UNCHANGED <<capacity, configured, options, fs, scen>>
    /\ UNCHANGED conOthers

ConCreate(c) ==
    /\ ConAt(c, "create")
    /\ ConApply(c, ConCreateStep(ConShared, calls[c].frames))
    /\ UNCHANGED <<capacity, configured, options, fs, scen>>
    /\ UNCHANGED conOthers

ConRef(c) ==
    /\ ConAt(c, "refs")
    /\ ConApply(c, ConRefStep(ConShared, calls[c].frames))
    /\ UNCHANGED <<capacity, configured, options, fs, scen>>
    /\ UNCHANGED conOthers

ConFinishNode(c) ==
    /\ ConAt(c, "finish")
    /\ ConApply(c, ConFinish(ConShared, calls[c].frames))
    /\ UNCHANGED <<capacity, configured, options, fs, scen>>
    /\ UNCHANGED conOthers

\* resolveImports after await resolveTemplate: the cycles are detected in,
\* and the call returns, the graph the resolver holds now
ConReturn(c) ==
    /\ calls[c].pc = "returning"
    /\ graph' = [graph EXCEPT !.circularDependencies =
                    DetectCircularDependencies(graph.nodes, graph.edges)]
    /\ calls' = [calls EXCEPT ![c].pc = "done", ![c].result = graph']
    /\ UNCHANGED <<cache, capacity, configured, options, resolutionStack, fs,
                   useOrder, lruOk, scen>>
    /\ UNCHANGED conOthers

\* files for two calls: a and its import b beside c and a missing include;
\* a and b importing each other beside c; three files that depend in a chain
ConFiles ==
    { [a |-> Template(<<"b">>, <<>>), b |-> Template(<<>>, <<>>),
       c |-> Template(<<>>, <<MissingRef>>)],
      [a |-> Template(<<"b">>, <<>>), b |-> Template(<<"a">>, <<>>),
       c |-> Template(<<>>, <<>>)],
      [a |-> Template(<<"b">>, <<>>), b |-> Template(<<"c">>, <<>>),
       c |-> Template(<<>>, <<>>)] }

ConIdle == calls = [c \in CallIds |-> NoCall]

ConNext ==
    \/ \E c \in CallIds, u \in Uris : ConStart(c, u)
    \/ \E c \in CallIds : ConValidate(c)
    \/ \E c \in CallIds : ConCreate(c)
    \/ \E c \in CallIds : ConRef(c)
    \/ \E c \in CallIds : ConFinishNode(c)
    \/ \E c \in CallIds : ConReturn(c)

(***************************************************************************)
(* FreeMarkerStaticAnalyzer.validateDependencies: one step of the model is *)
(* one reference met by the walk over the files                            *)
(***************************************************************************)
\* the deepest chain of files under validation the walk is driven to
MaxVisiting == 5

NoValidation ==
    [status |-> "idle", root |-> "", entries |-> <<>>, origin |-> 0, stack |-> <<>>,
     visited |-> {}, reported |-> {}, emitted |-> <<>>, skipped |-> 0]

\* the range of the i-th import or include statement of the analysed file
OriginRange(i) ==
    [present |-> TRUE,
     start |-> [present |-> TRUE, line |-> Fin(2 * i), character |-> Fin(0),
                offset |-> Fin(40 * i)],
     end |-> [present |-> TRUE, line |-> Fin(2 * i), character |-> Fin(38),
              offset |-> Fin(40 * i + 38)]]

\* loadTemplate: the file as it is read now, or nothing when it cannot be
\* stat'ed or read (the two caches only spare reading an unchanged file again)
LoadTemplate(file) == fs[file].exists /\ fs[file].readable

\* extractDependencyPaths: the paths of the imports and includes, each once,
\* from the tree and from the text of the file
ExtractDependencyPaths(file) ==
    LET all == fs[file].imports \o fs[file].includes
    IN SelectSeq([i \in 1 .. Len(all) |->
                     IF \E j \in 1 .. i - 1 : all[j] = all[i] THEN "" ELSE all[i]],
                 LAMBDA p : p # "")

\* the key under which a reported missing file is remembered
ReportKey(range, currentFile, missingPath) ==
    <<range.start.offset, range.end.offset, currentFile, missingPath>>

\* collectTransitiveDependencies down to its loop over the dependencies
VisitAlways(v, resolvedPath) ==
    IF ~LoadTemplate(resolvedPath) THEN v
    ELSE [v EXCEPT !.visited = @ \cup {resolvedPath},
                   !.stack = Append(@, [file |-> resolvedPath,
                                        todo |-> ExtractDependencyPaths(resolvedPath)])]

Visit(v, resolvedPath) ==
    IF resolvedPath \in v.visited THEN [v EXCEPT !.skipped = @ + 1]
    ELSE IF ~LoadTemplate(resolvedPath) THEN v
    ELSE [v EXCEPT !.visited = @ \cup {resolvedPath},
                   !.stack = Append(@, [file |-> resolvedPath,
                                        todo |-> ExtractDependencyPaths(resolvedPath)])]

\* validateDependencies(content, ast, filePath) down to its first entry: the
\* imports, then the includes, of the tree of the analysed file
ValidateDependencies(root) ==
    /\ validation.status = "idle"
    /\ fs[root].exists /\ fs[root].parseOk
    /\ validation' = [NoValidation EXCEPT
                         !.status = "running", !.root = root,
                         !.entries = fs[root].imports \o fs[root].includes]
    /\ diagnostics' = diagnostics
    /\ UNCHANGED <<suppressedCodes, rangeIn, fs>>
    /\ UNCHANGED valOthers

\* evaluateDependency for the next import or include of the analysed file
EvaluateDependency ==
    /\ validation.status = "running"
    /\ validation.stack = <<>>
    /\ validation.entries # <<>>
    /\ LET path == Head(validation.entries)
           v == [validation EXCEPT !.entries = Tail(@), !.origin = @ + 1]
           range == OriginRange(v.origin)
       IN IF ~FileExists(path)
          THEN /\ diagnostics' = AddDiagnosticTo(diagnostics, suppressedCodes, "error",
                                                 range, "FTL4001")
               /\ validation' = [v EXCEPT !.emitted =
                                    Append(@, [range |-> range, missing |-> path,
                                               from |-> v.root])]
          ELSE /\ diagnostics' = diagnostics
               /\ validation' = Visit(v, path)
    /\ UNCHANGED <<suppressedCodes, rangeIn, fs>>
    /\ UNCHANGED valOthers

\* the next dependency of the file the walk is in: reported when it resolves
\* to no file, walked into otherwise
CollectTransitiveDependencies ==
    /\ validation.status = "running"
    /\ validation.stack # <<>>
    /\ Len(validation.stack) < MaxVisiting
    /\ validation.stack[Len(validation.stack)].todo # <<>>
    /\ LET n == Len(validation.stack)
           f == validation.stack[n]
           depPath == Head(f.todo)
           v == [validation EXCEPT !.stack[n].todo = Tail(@)]
           range == OriginRange(v.origin)
           key == ReportKey(range, f.file, depPath)
       IN IF FileExists(depPath)
          THEN /\ diagnostics' = diagnostics
               /\ validation' = Visit(v, depPath)
          ELSE IF key \in v.reported
          THEN /\ diagnostics' = diagnostics
               /\ validation' = v
          ELSE /\ diagnostics' = AddDiagnosticTo(diagnostics, suppressedCodes, "error",
                                                 range, "FTL4001")
               /\ validation' = [v EXCEPT !.reported = @ \cup {key},
                                          !.emitted =
                                              Append(@, [range |-> range, missing |-> depPath,
                                                         from |-> f.file])]
    /\ UNCHANGED <<suppressedCodes, rangeIn, fs>>
    /\ UNCHANGED valOthers

\* the loop over the dependencies of a file is over: finally visited.delete
LeaveDependency ==
    /\ validation.status = "running"
    /\ validation.stack # <<>>
    /\ validation.stack[Len(validation.stack)].todo = <<>>
    /\ LET n == Len(validation.stack)
       IN validation' = [validation EXCEPT
                            !.visited = @ \ {validation.stack[n].file},
                            !.stack = SubSeq(@, 1, n - 1)]
    /\ diagnostics' = diagnostics
    /\ UNCHANGED <<suppressedCodes, rangeIn, fs>>
    /\ UNCHANGED valOthers

\* validateDependencies returns
ValidationReturns ==
    /\ validation.status = "running"
    /\ validation.stack = <<>>
    /\ validation.entries = <<>>
    /\ validation' = [validation EXCEPT !.status = "done"]
    /\ diagnostics' = diagnostics
    /\ UNCHANGED <<suppressedCodes, rangeIn, fs>>
    /\ UNCHANGED valOthers

\* the files on disk: a missing file met from two files under one import;
\* one file met twice under one import, in a cycle through the analysed
\* file; two files importing each other and a file missing at the top; a
\* file that cannot be read and a file that cannot be parsed; a file
\* importing itself; three files that all refer to each other
ValidatedFiles ==
    { [a |-> Template(<<"b">>, <<>>), b |-> Template(<<"c">>, <<MissingRef>>),
       c |-> Template(<<>>, <<MissingRef>>)],
      [a |-> Template(<<"b", "c">>, <<>>), b |-> Template(<<"c", "a">>, <<>>),
       c |-> Template(<<>>, <<MissingRef>>)],
      [a |-> Template(<<"b", MissingRef>>, <<"b">>), b |-> Template(<<"a">>, <<>>),
       c |-> Template(<<"c">>, <<"c">>)],
      [a |-> Template(<<"b">>, <<"c">>),
       b |-> [Template(<<MissingRef>>, <<>>) EXCEPT !.readable = FALSE],
       c |-> [Template(<<"a">>, <<MissingRef>>) EXCEPT !.parseOk = FALSE]],
      [a |-> Template(<<"b", "c">>, <<"b">>), b |-> Template(<<"c", MissingRef>>, <<"a">>),
       c |-> Template(<<"b">>, <<MissingRef, "a">>)] }

ValIdle == validation = NoValidation

ValNext ==
    \/ \E u \in Uris : ValidateDependencies(u)
    \/ EvaluateDependency
    \/ CollectTransitiveDependencies
    \/ LeaveDependency
    \/ ValidationReturns

(***************************************************************************)
(* FreeMarkerLexer.tokenize: one step of the model is one call of          *)
(* scanToken                                                               *)
(***************************************************************************)
\* the longest text the lexer is given, counted in characters
MaxContent == 5

\* the characters of the texts: the parts of tags and comments, a line
\* break and a letter
Chars == {"<", "#", "/", "-", ">", "nl", "a"}

Contents == UNION {[1 .. n -> Chars] : n \in 0 .. MaxContent}

NoLexer ==
    [content |-> <<>>, position |-> 0, line |-> 1, character |-> 1, tokens |-> <<>>,
     inDirective |-> FALSE, status |-> "idle"]

IsAtEnd(lx) == lx.position >= Len(lx.content)

\* the character k places after the current one; "eof" where the code gives '\0'
PeekAt(lx, k) ==
    IF lx.position + k >= Len(lx.content) THEN "eof" ELSE lx.content[lx.position + k + 1]

Peek(lx) == PeekAt(lx, 0)
PeekNext(lx) == PeekAt(lx, 1)
PeekNextNext(lx) == PeekAt(lx, 2)

LexAdvance(lx) == [lx EXCEPT !.character = @ + 1, !.position = @ + 1]

IsAlpha(c) == c = "a"

IsFreeMarkerSyntax(lx) ==
    \/ Peek(lx) = "<" /\ PeekNext(lx) \in {"#", "@"}
    \/ Peek(lx) = "[" /\ PeekNext(lx) \in {"#", "@"}
    \/ Peek(lx) = "$" /\ PeekNext(lx) = "{"
    \/ Peek(lx) \in {">", "]", "}"}

\* addToken(type, value): length is value.length; from is the index in the
\* text of the first character the token was scanned from (history)
AddToken(lx, type, length, from) ==
    [lx EXCEPT !.tokens =
        Append(@, [type |-> type, length |-> length, from |-> from,
                   position |-> [line |-> lx.line, character |-> lx.character - length,
                                 offset |-> lx.position - length]])]

RECURSIVE ScanCommentFrom(_, _, _)
\* the loop of scanComment; length is the length of value so far
ScanCommentFrom(lx, length, from) ==
    IF IsAtEnd(lx) THEN AddToken(lx, "COMMENT_START", length, from)
    ELSE IF Peek(lx) = "-" /\ PeekNext(lx) = "-" /\ PeekNextNext(lx) = ">"
    THEN AddToken(LexAdvance(LexAdvance(LexAdvance(lx))), "COMMENT_START", length + 3, from)
    ELSE LET lx1 == IF Peek(lx) = "nl" THEN [lx EXCEPT !.line = @ + 1, !.character = 1]
                    ELSE lx
         IN ScanCommentFrom(LexAdvance(lx1), length + 1, from)

ScanComment(lx, from) == ScanCommentFrom(lx, 4, from)

RECURSIVE SkipAlphaNumeric(_)
SkipAlphaNumeric(lx) ==
    IF IsAlpha(Peek(lx)) THEN SkipAlphaNumeric(LexAdvance(lx)) ELSE lx

ScanLessThan(lx, from) ==
    IF Peek(lx) = "#"
    THEN LET lx1 == LexAdvance(lx)
         IN IF Peek(lx1) = "-" /\ PeekNext(lx1) = "-"
            THEN ScanComment(LexAdvance(LexAdvance(lx1)), from)
            ELSE AddToken([lx1 EXCEPT !.inDirective = TRUE], "DIRECTIVE_START", 2, from)
    ELSE IF Peek(lx) = "/" /\ PeekNext(lx) = "#"
    THEN LET lx1 == AddToken([LexAdvance(LexAdvance(lx)) EXCEPT !.inDirective = TRUE],
                             "DIRECTIVE_START", 2, from)
             lx2 == SkipAlphaNumeric(lx1)
         IN AddToken(lx2, "IDENTIFIER", 1 + (lx2.position - lx1.position), from + 1)
    ELSE AddToken(lx, "LESS_THAN", 1, from)

ScanGreaterThan(lx, from) ==
    IF lx.inDirective
    THEN AddToken([lx EXCEPT !.inDirective = FALSE], "DIRECTIVE_END", 1, from)
    ELSE AddToken(lx, "GREATER_THAN", 1, from)

ScanMinus(lx, from) ==
    IF Peek(lx) = "-" THEN AddToken(LexAdvance(lx), "DECREMENT", 2, from)
    ELSE AddToken(lx, "MINUS", 1, from)

RECURSIVE ScanIdentifierFrom(_, _, _)
ScanIdentifierFrom(lx, length, from) ==
    IF IsAlpha(Peek(lx)) THEN ScanIdentifierFrom(LexAdvance(lx), length + 1, from)
    ELSE AddToken(lx, "IDENTIFIER", length, from)

RECURSIVE ScanTextFrom(_, _, _)
ScanTextFrom(lx, length, from) ==
    IF ~IsAtEnd(lx) /\ ~IsFreeMarkerSyntax(lx) /\ Peek(lx) # "nl"
    THEN ScanTextFrom(LexAdvance(lx), length + 1, from)
    ELSE AddToken(lx, "TEXT", length, from)

\* scanToken
ScanTokenOf(lx) ==
    LET c == Peek(lx)
        from == lx.position
        lx1 == LexAdvance(lx)
    IN CASE c = "nl" -> [AddToken(lx1, "NEWLINE", 1, from) EXCEPT !.line = @ + 1,
                                                                 !.character = 1]
         [] c = "/" -> AddToken(lx1, "SLASH", 1, from)
         [] c = "-" -> ScanMinus(lx1, from)
         [] c = "<" -> ScanLessThan(lx1, from)
         [] c = ">" -> ScanGreaterThan(lx1, from)
         [] IsAlpha(c) -> ScanIdentifierFrom(lx1, 1, from)
         [] OTHER -> ScanTextFrom(lx1, 1, from)

\* tokenize(content) down to its loop
Tokenize(content) ==
    /\ lexer.status = "idle"
    /\ lexer' = [NoLexer EXCEPT !.content = content, !.status = "scanning"]
    /\ UNCHANGED lexOthers

\* tokenize called with one of the texts
TokenizeSome == lexer.status = "idle" /\ \E content \in Contents : Tokenize(content)

ScanToken ==
    /\ lexer.status = "scanning"
    /\ ~IsAtEnd(lexer)
    /\ lexer' = ScanTokenOf(lexer)
    /\ UNCHANGED lexOthers

\* the end of tokenize: the EOF token
EndOfFile ==
    /\ lexer.status = "scanning"
    /\ IsAtEnd(lexer)
    /\ lexer' = [AddToken(lexer, "EOF", 0, lexer.position) EXCEPT !.status = "done"]
    /\ UNCHANGED lexOthers

LexIdle == lexer = NoLexer

LexNext ==
    \/ TokenizeSome
    \/ ScanToken
    \/ EndOfFile

(***************************************************************************)
(* FreeMarkerParser.parse over the tokens of tags and text                 *)
(***************************************************************************)
\* the longest template the parser is given, counted in tags and texts
MaxTags == 4

Tok(type, value) == [type |-> type, value |-> value]

\* the tokens the lexer emits for an opening tag, a closing tag and a text
OpenTag(type, name, rest) ==
    <<Tok("DIRECTIVE_START", "<#"), Tok(type, name)>> \o rest \o <<Tok("DIRECTIVE_END", ">")>>

CloseTag(name) ==
    <<Tok("DIRECTIVE_START", "<#"), Tok("IDENTIFIER", name), Tok("DIRECTIVE_END", ">")>>

Tags ==
    { OpenTag("IF", "if", <<Tok("IDENTIFIER", "x")>>),
      OpenTag("ELSE", "else", <<>>),
      OpenTag("MACRO", "macro", <<Tok("IDENTIFIER", "m")>>),
      OpenTag("ATTEMPT", "attempt", <<>>),
      CloseTag("/if"), CloseTag("/macro"), CloseTag("/attempt"),
      <<Tok("TEXT", "t")>> }

RECURSIVE TagSeqs(_)
TagSeqs(n) ==
    IF n = 0 THEN {<<>>}
    ELSE {t \o s : t \in Tags, s \in TagSeqs(n - 1)}

\* the token lists: up to MaxTags tags and texts, then the EOF token
TokenLists == {s \o <<Tok("EOF", "")>> : s \in UNION {TagSeqs(n) : n \in 0 .. MaxTags}}

\* value.startsWith('/')
StartsWithSlash(value) == value \in {"/if", "/macro", "/attempt", "/else"}

NoParser == [tokens |-> <<>>, current |-> 0, bodies |-> <<>>, status |-> "idle"]

ParserAtEnd(ts, ps) == ps.current >= Len(ts)

ParserPeek(ts, ps) == IF ParserAtEnd(ts, ps) THEN Tok("EOF", "") ELSE ts[ps.current + 1]

\* check(type); the token lists hold no whitespace to skip
ParserCheck(ts, ps, type) == ~ParserAtEnd(ts, ps) /\ ParserPeek(ts, ps).type = type

ParserAdvance(ts, ps) ==
    IF ParserAtEnd(ts, ps) THEN ps ELSE [ps EXCEPT !.current = @ + 1]

ParserMatch(ts, ps, type) ==
    IF ParserCheck(ts, ps, type) THEN ParserAdvance(ts, ps) ELSE ps

\* the value of tokens[current + 1], undefined past the end
ValueAfter(ts, ps) == IF ps.current + 2 <= Len(ts) THEN ts[ps.current + 2].value ELSE ""

CheckDirective(ts, ps, name) ==
    ParserCheck(ts, ps, "DIRECTIVE_START") /\ ValueAfter(ts, ps) = name

CheckDirectiveEnd(ts, ps) ==
    /\ ParserCheck(ts, ps, "DIRECTIVE_START") \/ ParserCheck(ts, ps, "MACRO_START")
    /\ StartsWithSlash(ValueAfter(ts, ps))

\* parseExpression on these tokens: an identifier is a variable, anything
\* else is the fallback that consumes nothing
ParseExpression(ts, ps) == ParserMatch(ts, ps, "IDENTIFIER")

RECURSIVE SkipToDirectiveEnd(_, _)
\* the loops of parseParameters and parseMacro: on to the end of the tag
SkipToDirectiveEnd(ts, ps) ==
    IF ~ParserCheck(ts, ps, "DIRECTIVE_END") /\ ~ParserAtEnd(ts, ps)
    THEN SkipToDirectiveEnd(ts, ParserAdvance(ts, ps))
    ELSE ps

RECURSIVE ParseTopLevel(_, _)
RECURSIVE ParseDirectiveBody(_, _, _)

\* parseDirectiveBody; owner names the directive whose body it is, and the
\* way the body ended is kept as history
ParseDirectiveBody(ts, ps, owner) ==
    IF ParserAtEnd(ts, ps)
    THEN [ps EXCEPT !.bodies = Append(@, [owner |-> owner, closedBy |-> "eof", tokens |-> 0])]
    ELSE IF CheckDirectiveEnd(ts, ps)
    THEN LET done == ParserMatch(ts, ParserAdvance(ts, ParserAdvance(ts, ps)),
                                 "DIRECTIVE_END")
         IN [done EXCEPT !.bodies = Append(@, [owner |-> owner,
                                               closedBy |-> ValueAfter(ts, ps),
                                               tokens |-> done.current - ps.current])]
    ELSE ParseDirectiveBody(ts, ParseTopLevel(ts, ps), owner)

ParseIf(ts, ps) ==
    LET ps1 == ParserMatch(ts, ParseExpression(ts, ps), "DIRECTIVE_END")
        ps2 == ParseDirectiveBody(ts, ps1, "if")
    IN IF CheckDirective(ts, ps2, "else")
       THEN ParseDirectiveBody(ts, ParserMatch(ts, ParserAdvance(ts, ps2), "DIRECTIVE_END"),
                               "if")
       ELSE ps2

ParseMacro(ts, ps) ==
    LET ps1 == SkipToDirectiveEnd(ts, ParserAdvance(ts, ps))
    IN ParseDirectiveBody(ts, ParserMatch(ts, ps1, "DIRECTIVE_END"), "macro")

\* parseDirective, called with the DIRECTIVE_START token consumed
ParseDirective(ts, ps) ==
    LET name == ParserPeek(ts, ps).value
        ps1 == ParserAdvance(ts, ps)
    IN IF name = "if" THEN ParseIf(ts, ps1)
       ELSE IF name = "macro" THEN ParseMacro(ts, ps1)
       ELSE ParseDirectiveBody(ts, SkipToDirectiveEnd(ts, ps1), name)

ParseTopLevel(ts, ps) ==
    IF ParserCheck(ts, ps, "DIRECTIVE_START") THEN ParseDirective(ts, ParserAdvance(ts, ps))
    ELSE ParserAdvance(ts, ps)

RECURSIVE ParseLoop(_, _)
\* the loop of parse
ParseLoop(ts, ps) ==
    IF ParserAtEnd(ts, ps) THEN ps ELSE ParseLoop(ts, ParseTopLevel(ts, ps))

\* new FreeMarkerParser(tokens).parse(), which returns: none of these
\* tokens makes the parser throw
Parse(tokens) ==
    /\ parser.status = "idle"
    /\ parser' = [ParseLoop(tokens, [NoParser EXCEPT !.tokens = tokens])
                      EXCEPT !.status = "returned"]
    /\ UNCHANGED parOthers

\* parse called with one of the token lists
ParseSome == parser.status = "idle" /\ \E tokens \in TokenLists : Parse(tokens)

\* the parser is dropped and a new one is made
ParserReset ==
    /\ parser.status = "returned"
    /\ parser' = NoParser
    /\ UNCHANGED parOthers

ParserIdle == parser = NoParser

ParserNext ==
    \/ ParseSome
    \/ ParserReset

(***************************************************************************)
(* The extension: analysis timers and the diagnostic collection            *)
(***************************************************************************)
\* the most timers made in one run
MaxTimers == 4

ANALYSIS_DEBOUNCE_MS == 300

Documents == {"one.ftl", "two.ftl", "notes.txt"}

\* document.languageId
LanguageId(doc) == IF doc = "notes.txt" THEN "plaintext" ELSE "ftl"

NoTimer == 0

\* the extension before activate: isActive is history
NoExtension ==
    [isActive |-> FALSE, open |-> {}, pendingAnalyses |-> [d \in Documents |-> NoTimer],
     timers |-> {}, handles |-> 0, diagnosticCollection |-> {},
     burst |-> [d \in Documents |-> 0]]

\* clearTimeout(existing)
ClearTimeout(ext, handle) == [ext EXCEPT !.timers = {t \in @ : t.handle # handle}]

\* scheduleDiagnostics that leaves the timer it replaces alive
ScheduleDiagnosticsKeepsExisting(ext, doc, delay) ==
    IF LanguageId(doc) # "ftl" THEN ext
    ELSE LET handle == ext.handles + 1
         IN [ext EXCEPT !.timers = @ \cup {[handle |-> handle, doc |-> doc, delay |-> delay]},
                        !.handles = handle,
                        !.pendingAnalyses[doc] = handle,
                        !.burst[doc] = @ + 1]

\* scheduleDiagnostics(document, delay); timers are made at different times,
\* so the delays do not order their callbacks
ScheduleDiagnostics(ext, doc, delay) ==
    IF LanguageId(doc) # "ftl" THEN ext
    ELSE LET existing == ext.pendingAnalyses[doc]
             cleared == IF existing # NoTimer THEN ClearTimeout(ext, existing) ELSE ext
             handle == ext.handles + 1
         IN [cleared EXCEPT !.timers = @ \cup {[handle |-> handle, doc |-> doc,
                                                 delay |-> delay]},
                            !.handles = handle,
                            !.pendingAnalyses[doc] = handle,
                            !.burst[doc] = @ + 1]

\* cancelScheduledDiagnostics(uri)
CancelScheduledDiagnostics(ext, doc) ==
    LET existing == ext.pendingAnalyses[doc]
    IN IF existing # NoTimer
       THEN [ClearTimeout(ext, existing) EXCEPT !.pendingAnalyses[doc] = NoTimer]
       ELSE ext

\* refreshDiagnostics(document): the diagnostics are set, or, when the
\* analysis threw, deleted
RefreshDiagnostics(ext, doc, threw) ==
    [ext EXCEPT !.diagnosticCollection = IF threw THEN @ \ {doc} ELSE @ \cup {doc}]

\* a timer can be made
CanSchedule == extension.isActive /\ extension.handles < MaxTimers

\* onDidOpenTextDocument
DidOpenTextDocument(doc) ==
    /\ CanSchedule
    /\ doc \notin extension.open
    /\ extension' = ScheduleDiagnostics([extension EXCEPT !.open = @ \cup {doc}], doc,
                                        ANALYSIS_DEBOUNCE_MS)
    /\ UNCHANGED extOthers

\* onDidChangeTextDocument
DidChangeTextDocument(doc) ==
    /\ CanSchedule
    /\ doc \in extension.open
    /\ extension' = ScheduleDiagnostics(extension, doc, ANALYSIS_DEBOUNCE_MS)
    /\ UNCHANGED extOthers

\* onDidChangeActiveTextEditor with an editor
DidChangeActiveTextEditor(doc) ==
    /\ CanSchedule
    /\ doc \in extension.open
    /\ extension' = ScheduleDiagnostics(extension, doc, 0)
    /\ UNCHANGED extOthers

\* onDidCloseTextDocument
DidCloseTextDocument(doc) ==
    /\ extension.isActive
    /\ doc \in extension.open
    /\ extension' = [CancelScheduledDiagnostics([extension EXCEPT !.open = @ \ {doc}], doc)
                         EXCEPT !.diagnosticCollection = @ \ {doc},
                                !.burst[doc] = 0]
    /\ UNCHANGED extOthers

\* the callback of a timer that was not cleared
TimerFires(timer, threw) ==
    /\ timer \in extension.timers
    /\ LET fired == [extension EXCEPT !.timers = @ \ {timer},
                                      !.pendingAnalyses[timer.doc] = NoTimer,
                                      !.burst[timer.doc] = 0]
       IN extension' = IF timer.doc \notin extension.open
                       THEN [fired EXCEPT !.diagnosticCollection = @ \ {timer.doc}]
                       ELSE RefreshDiagnostics(fired, timer.doc, threw)
    /\ UNCHANGED extOthers

\* deactivate
Deactivate ==
    /\ extension.isActive
    /\ extension' = [extension EXCEPT !.isActive = FALSE, !.timers = {},
                                      !.pendingAnalyses = [d \in Documents |-> NoTimer],
                                      !.diagnosticCollection = {},
                                      !.burst = [d \in Documents |-> 0]]
    /\ UNCHANGED extOthers

ExtIdle == extension = NoExtension

ExtNext ==
    \/ \E doc \in Documents : DidOpenTextDocument(doc)
    \/ \E doc \in Documents : DidChangeTextDocument(doc)
    \/ \E doc \in Documents : DidChangeActiveTextEditor(doc)
    \/ \E doc \in Documents : DidCloseTextDocument(doc)
    \/ \E timer \in extension.timers, threw \in BOOLEAN : TimerFires(timer, threw)
    \/ Deactivate

(***************************************************************************)
(* Specifications: each drives one component and leaves the others idle    *)
(***************************************************************************)
LruIdle ==
    /\ cache = <<>>
    /\ configured = Fin(0)
    /\ capacity = 0

\* new LRUCache(configured), on its own
LruInit ==
    /\ cache = <<>>
    /\ configured \in SizeInputs
    /\ capacity = NormalizeCapacity(configured)
    /\ ResIdle /\ RepIdle /\ AnaIdle /\ SemIdle /\ ConIdle /\ ValIdle /\ LexIdle /\ ParserIdle /\ ExtIdle

SpecLRU == LruInit /\ [][LruNext]_vars

\* new ImportResolver(analyzer, options)
ResInit ==
    /\ options \in [maxDepth : {1, 5}, cacheEnabled : {TRUE}, maxCacheSize : {Fin(4)}]
    /\ configured = options.maxCacheSize
    /\ capacity = NormalizeCapacity(configured)
    /\ cache = <<>>
    /\ graph = EmptyGraph
    /\ resolutionStack = <<>>
    /\ fs \in FileShapes
    /\ useOrder = <<>>
    /\ lruOk = TRUE
    /\ scen = 0
    /\ RepIdle /\ AnaIdle /\ SemIdle /\ ConIdle /\ ValIdle /\ LexIdle /\ ParserIdle /\ ExtIdle

SpecResolver == ResInit /\ [][ResNext]_vars

\* new ErrorReporter(), and the range its producer will pass
RepInit ==
    /\ diagnostics = <<>>
    /\ suppressedCodes = {}
    /\ rangeIn \in RangeInputs
    /\ LruIdle /\ ResIdle /\ AnaIdle /\ SemIdle /\ ConIdle /\ ValIdle /\ LexIdle /\ ParserIdle /\ ExtIdle

SpecReporter == RepInit /\ [][RepNext]_vars

\* new FreeMarkerStaticAnalyzer(), and the call it is about to get
AnaInit ==
    /\ template \in Templates
    /\ filePath \in {NoFilePath, "a"}
    /\ fault \in Faults
    /\ result = NoResult
    /\ RepIdle
    /\ LruIdle /\ ResQuiet /\ fs = AnalyzerFiles
    /\ SemIdle /\ ConIdle /\ ValIdle /\ LexIdle /\ ParserIdle /\ ExtIdle

SpecAnalyzer == AnaInit /\ [][AnaNext]_vars

\* new SemanticAnalyzer(), and the files it will find
SemInit ==
    /\ SemIdle /\ ConIdle /\ ValIdle /\ LexIdle /\ ParserIdle /\ ExtIdle
    /\ fs \in SemProjects
    /\ LruIdle /\ ResQuiet /\ RepIdle /\ AnaIdle

\* new ImportResolver(analyzer, options), no call made yet
ConInit ==
    /\ options \in [maxDepth : {1, 5}, cacheEnabled : BOOLEAN, maxCacheSize : {Fin(4)}]
    /\ configured = options.maxCacheSize
    /\ capacity = NormalizeCapacity(configured)
    /\ cache = <<>>
    /\ graph = EmptyGraph
    /\ resolutionStack = <<>>
    /\ fs \in ConFiles
    /\ useOrder = <<>>
    /\ lruOk = TRUE
    /\ scen = -1
    /\ ConIdle /\ ValIdle /\ LexIdle /\ ParserIdle /\ ExtIdle
    /\ RepIdle /\ AnaIdle /\ SemIdle

SpecConcurrent == ConInit /\ [][ConNext]_vars

\* the calls in flight while files are written and deleted
ConFsNext ==
    \/ ConNext
    \/ \E u \in Touched : FsTouch(u)
    \/ \E u \in Removed : FsRemove(u)

SpecConcurrentFs == ConInit /\ [][ConFsNext]_vars

\* new FreeMarkerStaticAnalyzer(), and the files it will find
ValInit ==
    /\ validation = NoValidation
    /\ fs \in ValidatedFiles
    /\ diagnostics = <<>>
    /\ suppressedCodes = {}
    /\ rangeIn = NoRange
    /\ LruIdle /\ ResQuiet /\ AnaIdle /\ SemIdle /\ ConIdle /\ LexIdle /\ ParserIdle /\ ExtIdle

SpecValidate == ValInit /\ [][ValNext]_vars

\* the walk is synchronous: once called it runs until it returns
SpecValidateRuns == ValInit /\ [][ValNext]_vars /\ WF_vars(ValNext)

\* new FreeMarkerLexer()
LexInit ==
    /\ lexer = NoLexer
    /\ LruIdle /\ ResIdle /\ RepIdle /\ AnaIdle /\ SemIdle /\ ConIdle /\ ValIdle /\ ParserIdle /\ ExtIdle

SpecLexer == LexInit /\ [][LexNext]_vars

\* new FreeMarkerParser(tokens)
ParserInit ==
    /\ parser = NoParser
    /\ LruIdle /\ ResIdle /\ RepIdle /\ AnaIdle /\ SemIdle /\ ConIdle /\ ValIdle /\ LexIdle
    /\ ExtIdle

SpecParser == ParserInit /\ [][ParserNext]_vars

\* activate: the documents that are open, and the timer for the document of
\* the active editor when there is one
ExtInit ==
    /\ \E open \in SUBSET Documents, active \in SUBSET Documents :
          /\ active \subseteq open /\ Cardinality(active) <= 1
          /\ LET activated == [NoExtension EXCEPT !.isActive = TRUE, !.open = open]
             IN extension = IF active = {} THEN activated
                            ELSE ScheduleDiagnostics(activated, CHOOSE d \in active : TRUE, 0)
    /\ LruIdle /\ ResIdle /\ RepIdle /\ AnaIdle /\ SemIdle /\ ConIdle /\ ValIdle /\ LexIdle
    /\ ParserIdle

SpecExtension == ExtInit /\ [][ExtNext]_vars

SpecSemantic == SemInit /\ [][SemNext]_vars

\* the analyses in which any step of a walk may raise an exception
SpecSemanticFaulty == SemInit /\ [][SemFaultyNext]_vars

\* the analysis is one synchronous call: a step that can be taken is taken
SpecSemanticRuns == SemInit /\ [][SemNext]_vars /\ WF_vars(SemNext)

(***************************************************************************)
(* C1: after any sequence of get, set, delete, clear and setMaxSize calls *)
(* the cache holds no more entries than the normalised capacity: the      *)
(* floor of the configured size, and 0 for a zero, negative or non-finite *)
(* size; while that capacity is 0 the cache is empty.                      *)
(***************************************************************************)
C1_ExpectedCapacity ==
    IF configured.k # "fin" \/ configured.h <= 0 THEN 0
    ELSE CHOOSE n \in 0 .. MaxSize + 1 : 2 * n <= configured.h /\ configured.h < 2 * n + 2

C1_CapacityBound ==
    /\ Len(cache) <= C1_ExpectedCapacity
    /\ (C1_ExpectedCapacity = 0 => cache = <<>>)

\* a cache filled to a capacity that was configured as a fraction (2.5 -> 2),
\* from which the key "a" is gone
C1_Witness ==
    /\ configured = Fin(5)
    /\ capacity = 2
    /\ Len(cache) = 2
    /\ ~CacheHas(cache, "a")
(***************************************************************************)
(* C2: with a resolver cache of capacity 2, resolving a, then b, then a    *)
(* again, then c leaves exactly a and c in the cache (b is evicted), and   *)
(* every eviction takes the key whose last use, a cache hit or a store, is *)
(* the oldest.                                                             *)
(***************************************************************************)
C2_Flat ==
    \A u \in Uris : /\ fs[u].exists /\ fs[u].readable
                    /\ fs[u].imports = <<>> /\ fs[u].includes = <<>>

C2_EvictsLeastRecentlyUsed ==
    /\ lruOk
    /\ (scen = 4 /\ capacity = 2 /\ options.cacheEnabled /\ C2_Flat)
          => CacheKeys(cache) = {"a", "c"}

C2_Witness ==
    /\ scen = 4 /\ capacity = 2 /\ options.cacheEnabled /\ C2_Flat
    /\ CacheKeys(cache) = {"a", "c"}
    /\ lruOk

(***************************************************************************)
(* C3: whatever range the producer passed (missing, negative, non-finite,  *)
(* reversed), every diagnostic the reporter holds has a range whose end is *)
(* not before its start by (line, character) and not before it by offset.  *)
(***************************************************************************)
C3_Ordered(r) ==
    /\ r.start.offset <= r.end.offset
    /\ \/ r.start.line < r.end.line
       \/ (r.start.line = r.end.line /\ r.start.character <= r.end.character)

C3_RangeEndNotBeforeStart ==
    \A i \in 1 .. Len(diagnostics) : C3_Ordered(diagnostics[i].range)

\* the producer passed a range reversed by line and by offset, with undefined
\* and non-finite fields, and the reporter holds the diagnostic made from it
C3_Witness ==
    /\ rangeIn.present /\ rangeIn.start.present /\ rangeIn.end.present
    /\ rangeIn.start.line = Fin(6) /\ rangeIn.end.line = Fin(-3)
    /\ rangeIn.start.offset = Fin(5) /\ rangeIn.end.offset = PosInf
    /\ rangeIn.end.character = NaN
    /\ Len(diagnostics) = 1
    /\ diagnostics[1].range.end = diagnostics[1].range.start
    /\ diagnostics[1].range.start = [line |-> 3, character |-> 3, offset |-> 2]

(***************************************************************************)
(* C4: analyze never throws to its caller; an exception raised in lexing,  *)
(* parsing or semantic analysis gives a result with a null AST.  As first  *)
(* stated, that result carries a single error diagnostic anchored at line  *)
(* 1, character 1 (C4_SingleDiagnostic).  As amended, the exception adds   *)
(* exactly one error diagnostic starting at line 1, character 1, after the *)
(* FTL1005 diagnostics of the basic syntax check, which stay in the result *)
(* (C4_NeverThrows).                                                       *)
(***************************************************************************)
C4_Raised == fault # "none" \/ ParserThrows(template)

C4_Unclosed ==
    {i \in 1 .. Len(template) :
        template[i] = "${" /\ \A j \in i .. Len(template) : template[j] # "}"}

C4_AtOrigin(d) ==
    d.severity = "error" /\ d.range.start.line = 1 /\ d.range.start.character = 1

C4_SingleDiagnostic ==
    result.status # "none" =>
        /\ result.status = "returned"
        /\ C4_Raised =>
              /\ result.ast = FALSE
              /\ Len(result.diagnostics) = 1
              /\ C4_AtOrigin(result.diagnostics[1])

C4_NeverThrows ==
    result.status # "none" =>
        /\ result.status = "returned"
        /\ C4_Raised =>
              LET n == Len(result.diagnostics)
              IN /\ result.ast = FALSE
                 /\ n = Cardinality(C4_Unclosed) + 1
                 /\ C4_AtOrigin(result.diagnostics[n])
                 /\ result.diagnostics[n].code \in {NoCode, "FTL1001"}
                 /\ \A i \in 1 .. n - 1 : result.diagnostics[i].code = "FTL1005"

\* semantic analysis raised an exception on a template with an unclosed
\* interpolation on its second line: the result has a null AST, the FTL1005
\* diagnostic and the diagnostic made from the exception
C4_Witness ==
    /\ fault = "semantic"
    /\ template = <<"nl", "${">>
    /\ result.status = "returned"
    /\ result.ast = FALSE
    /\ Len(result.diagnostics) = 2
    /\ result.diagnostics[1].code = "FTL1005"
    /\ result.diagnostics[1].range.start.line = 2
    /\ result.diagnostics[2].code = NoCode
    /\ C4_AtOrigin(result.diagnostics[2])

(***************************************************************************)
(* C5: analysing, with the file path supplied, a template that holds a     *)
(* non-optional import of a path no file answers to gives at least one     *)
(* diagnostic with code FTL4001.                                           *)
(***************************************************************************)
C5_ImportsMissingFile ==
    /\ filePath # NoFilePath
    /\ \E i \in 1 .. Len(template) : template[i] = ImportMissing
    /\ ~FileExists(MissingRef)

C5_MissingImportReported ==
    (result.status = "returned" /\ result.ast = TRUE /\ C5_ImportsMissingFile) =>
        \E i \in 1 .. Len(result.diagnostics) : result.diagnostics[i].code = "FTL4001"

(***************************************************************************)
(* C6: when the analysed file imports an existing file that itself refers  *)
(* to a missing file, the result holds an FTL4001 diagnostic whose range   *)
(* is the range of the import statement in the analysed file.              *)
(***************************************************************************)
C6_ImportAt(i) ==
    /\ template[i] = ImportExisting
    /\ FileExists("b")
    /\ \E j \in 1 .. Len(fs["b"].imports) : ~FileExists(fs["b"].imports[j])

C6_TransitiveMissingReported ==
    (result.status = "returned" /\ result.ast = TRUE /\ filePath # NoFilePath) =>
        \A i \in 1 .. Len(template) :
            C6_ImportAt(i) =>
                \E k \in 1 .. Len(result.diagnostics) :
                    /\ result.diagnostics[k].code = "FTL4001"
                    /\ result.diagnostics[k].range =
                           NormalizeRange(CreateRangeFromOffsets(template, i - 1, i))

(***************************************************************************)
(* C7: macros that call each other in a cycle, or call themselves          *)
(***************************************************************************)
\* a call to a macro whose node is in activeMacroNodes is at hand
C7_ReentrantCall ==
    /\ AtStatement("MacroCall")
    /\ FindMacro(Top, Head(TopFrame.todo).name)
    /\ Top.macros[Head(TopFrame.todo).name].node \in Top.active

\* the diagnostics of the argument of the call at hand, which every call gets
C7_ArgumentDiagnostics ==
    LET s == Head(TopFrame.todo)
    IN [i \in 1 .. Len(UndefinedIn(Top.scopes, s.expr, FALSE)) |->
           <<"FTL2001", UndefinedIn(Top.scopes, s.expr, FALSE)[i], s.at>>]

\* the step from here adds no diagnostic for the call (only those of its
\* argument) and leaves the unresolved calls, the nesting and the scopes as
\* they were
C7_NothingHappens ==
    /\ Len(chain') = Len(chain)
    /\ Top'.errors = Top.errors \o C7_ArgumentDiagnostics
    /\ Top'.unresolved = Top.unresolved
    /\ Len(Top'.ctrl) = Len(Top.ctrl)
    /\ Top'.scopes = Top.scopes
    /\ Top'.active = Top.active

C8_NoFileEnteredTwice ==
    \A i, j \in 1 .. Len(chain) : i # j => chain[i].path # chain[j].path

(***************************************************************************)
(* C9: the report of an import cycle                                       *)
(***************************************************************************)
\* the files a file refers to
C9_Targets(u) ==
    {r \in SeqToSet(fs[u].imports) \cup SeqToSet(fs[u].includes) :
        FileExists(r) /\ fs[r].readable /\ fs[r].parseOk}

C9_Step(s) == s \cup UNION {C9_Targets(u) : u \in s}

\* the files that can be reached from u in one reference or more
C9_Reach(u) == C9_Step(C9_Step(C9_Targets(u)))

\* the analysed file leads into a cycle of references
C9_MeetsCycle == \E u \in {SemRoot} \cup C9_Reach(SemRoot) : u \in C9_Reach(u)

\* C9: when the analysis of a file that leads into an import cycle has
\* ended, the processing set of some analyzer has caught the cycle, and the
\* analysis carries the circular-dependency message.
C9_CircularConditionReported ==
    (semResult.status = "done" /\ C9_MeetsCycle) =>
        \/ "circular" \in seen
        \/ \E i \in 1 .. Len(semResult.errors) : semResult.errors[i][1] = "circular"

(***************************************************************************)
(* C10: what an if knows about the variables its condition checks          *)
(***************************************************************************)
RECURSIVE C10_IsCheck(_)
\* var??, var?has_content, or a conjunction of such checks
C10_IsCheck(cond) ==
    \/ cond.type = "Exists" /\ cond.args[1].type = "Variable"
    \/ cond.type = "BuiltIn" /\ cond.name = "has_content" /\ cond.args[1].type = "Variable"
    \/ /\ cond.type = "BinaryExpression" /\ cond.name = "&&"
       /\ C10_IsCheck(cond.args[1]) /\ C10_IsCheck(cond.args[2])

RECURSIVE C10_Checked(_)
\* the variables such a condition checks
C10_Checked(cond) ==
    IF cond.type = "BinaryExpression"
    THEN C10_Checked(cond.args[1]) \cup C10_Checked(cond.args[2])
    ELSE {cond.args[1].name}

\* C10: after the analysis of an if with such a condition, a use of a
\* checked variable in the then-branch has no undefined-variable diagnostic,
\* and, when nothing else defines the variable, its uses in the else-branch
\* and after the if each have one.
C10_DefinedInThenBranchOnly ==
    \A cond \in Conditions, v \in {"x", "y"}, early \in BOOLEAN :
        (/\ semResult.status = "done"
         /\ fs[SemRoot].body = IfBody(cond, v, early)
         /\ C10_IsCheck(cond)
         /\ v \in C10_Checked(cond))
        => LET errs == SeqToSet(semResult.errors)
           IN /\ <<"FTL2001", v, "then">> \notin errs
              /\ ~early => /\ <<"FTL2001", v, "else">> \in errs
                           /\ <<"FTL2001", v, "after">> \in errs

\* C10 witness: the if on x?? && y?? with y used in both branches and after
\* it has been analysed: y is undefined in the else-branch and after the if
C10_Witness ==
    /\ semResult.status = "done"
    /\ fs[SemRoot].body = IfBody(Binary("&&", Exists(Variable("x")), Exists(Variable("y"))),
                                 "y", FALSE)
    /\ semResult.errors = <<<<"FTL2001", "y", "else">>, <<"FTL2001", "y", "after">>>>

(***************************************************************************)
(* C11: calls of macros that are defined further down                      *)
(***************************************************************************)
RECURSIVE C11_Called(_)
\* the names of the macros called anywhere in a body
C11_Called(body) ==
    IF body = <<>> THEN {}
    ELSE LET s == Head(body)
         IN (IF s.type = "MacroCall" THEN {s.name} ELSE {})
            \cup C11_Called(s.body) \cup C11_Called(s.elseBody) \cup C11_Called(Tail(body))

\* the names of the macros defined at the top of a template
C11_Defined(body) == {body[i].name : i \in {j \in 1 .. Len(body) : body[j].type = "Macro"}}

\* C11: in a template whose macro calls all name macros defined at its top,
\* before or after the call, every call resolves (none is put aside as
\* unresolved) and the analysis ends without an FTL2004 diagnostic.
C11_ForwardReferencesResolve ==
    C11_Called(fs[SemRoot].body) \subseteq C11_Defined(fs[SemRoot].body)
    => /\ chain # <<>> => chain[1].unresolved = <<>>
       /\ \A i \in 1 .. Len(semResult.errors) : semResult.errors[i][1] # "FTL2004"

\* C11 witness: the template in which first calls second, defined after it,
\* has been analysed: the calls were expanded and nothing was reported
C11_Witness ==
    /\ semResult.status = "done"
    /\ semResult.errors = <<>>
    /\ "expanded" \in seen
    /\ fs[SemRoot].body[1] = Macro("first", <<>>, <<MacroCall("second", "f1")>>, "d1")
    /\ fs[SemRoot].body[2].name = "second"
    /\ fs[SemRoot].body[2].body = <<Interpolation(Literal, "s0")>>

(***************************************************************************)
(* C12: variables assigned in the body of a called macro                   *)
(***************************************************************************)
RECURSIVE C12_AssignedIn(_)
\* the variables assigned anywhere in a body
C12_AssignedIn(body) ==
    IF body = <<>> THEN {}
    ELSE LET s == Head(body)
         IN (IF s.type = "Assignment" THEN {s.name} ELSE {})
            \cup (IF s.type = "Macro" THEN {}
                  ELSE C12_AssignedIn(s.body) \cup C12_AssignedIn(s.elseBody))
            \cup C12_AssignedIn(Tail(body))

\* the body of the macro of this name defined at the top of a template
C12_BodyOf(body, name) ==
    body[CHOOSE i \in 1 .. Len(body) : body[i].type = "Macro" /\ body[i].name = name].body

\* C12: when the analysis has ended, a use of a variable that stands in the
\* template after a call of a macro defined in it, and that the macro's body
\* assigns, has no undefined-variable diagnostic.
C12_AssignedVariablesVisible ==
    semResult.status = "done" =>
        LET body == fs[SemRoot].body
        IN \A i, j \in 1 .. Len(body) :
              (/\ i < j
               /\ body[i].type = "MacroCall"
               /\ body[i].name \in C11_Defined(body)
               /\ body[j].type = "Interpolation"
               /\ body[j].expr.type = "Variable"
               /\ body[j].expr.name \in C12_AssignedIn(C12_BodyOf(body, body[i].name)))
              => \A k \in 1 .. Len(semResult.errors) :
                     semResult.errors[k] # <<"FTL2001", body[j].expr.name, body[j].at>>

(***************************************************************************)
(* C13: a reference that cannot be resolved or read                        *)
(***************************************************************************)
\* the references of one kind of the node of uri were all gone through: a
\* missing target left an error on the node, an existing one was resolved
\* and has its edge, and one that cannot be read has its own node with the
\* read error unless the attempt itself left an error on the node
C13_RefsDone(g, uri, infos, refs, kind, errors) ==
    /\ Len(infos) = Len(refs)
    /\ \A k \in 1 .. Len(refs) :
          /\ infos[k].path = refs[k]
          /\ IF ~FileExists(refs[k])
             THEN SeqHas(errors, <<kind, refs[k], "notfound">>)
             ELSE /\ infos[k].resolvedPath = refs[k]
                  /\ SeqHas(EdgesOf(g.edges, uri), refs[k])
                  /\ ~fs[refs[k]].readable =>
                        \/ /\ CacheHas(g.nodes, refs[k])
                           /\ SeqHas(CacheValue(g.nodes, refs[k]).errors, ReadError)
                        \/ \E why \in {"depth", "circular"} :
                              SeqHas(errors, <<kind, refs[k], why>>)

C13_GraphComplete ==
    \A i \in 1 .. Len(graph.nodes) :
        LET uri == graph.nodes[i].key
            node == graph.nodes[i].value
        IN node.ast =>
              /\ C13_RefsDone(graph, uri, node.imports, fs[uri].imports, "import", node.errors)
              /\ C13_RefsDone(graph, uri, node.includes, fs[uri].includes, "include",
                              node.errors)

\* C13: a resolveImports call does not reject, and in the graph it returns
\* every node that was parsed has gone through all its imports and includes:
\* each failure is an error string on a node, and the references after a
\* failed one are resolved all the same.
C13_FailureRecordedAndResolutionContinues ==
    /\ scen # -3
    /\ scen \notin {0, -1} => C13_GraphComplete

\* C13 witness: a was resolved: its missing import is an error on its node,
\* the import after it cannot be read and has a node with the read error,
\* and the include after both is resolved
C13_Witness ==
    /\ fs["a"].imports = <<MissingRef, "b">> /\ fs["a"].includes = <<"c">>
    /\ CacheHas(graph.nodes, "a")
    /\ CacheValue(graph.nodes, "a").errors = <<<<"import", MissingRef, "notfound">>>>
    /\ CacheHas(graph.nodes, "b")
    /\ CacheValue(graph.nodes, "b").errors = <<ReadError>>
    /\ CacheHas(graph.nodes, "c")
    /\ CacheValue(graph.nodes, "a").includes = <<[path |-> "c", resolvedPath |-> "c"]>>

(***************************************************************************)
(* C14: a chain of references longer than maxDepth                         *)
(***************************************************************************)
\* the references of a file that the resolver would follow
C14_Follows(u) ==
    IF fs[u].readable /\ fs[u].parseOk
    THEN {r \in SeqToSet(fs[u].imports) \cup SeqToSet(fs[u].includes) : FileExists(r)}
    ELSE {}

\* the chains of files, each referring to the next, no file twice
C14_Chains ==
    {p \in UNION {[1 .. n -> Uris] : n \in 2 .. Cardinality(Uris)} :
        /\ \A i, j \in DOMAIN p : i # j => p[i] # p[j]
        /\ \A i \in 1 .. Len(p) - 1 : p[i + 1] \in C14_Follows(p[i])}

\* the graph shows that the reference from one file to the next failed on
\* the depth limit
C14_DepthErrorOn(g, from, to) ==
    /\ CacheHas(g.nodes, from)
    /\ \E kind \in {"import", "include"} :
          SeqHas(CacheValue(g.nodes, from).errors, <<kind, to, "depth">>)

\* C14: when resolveImports(u) returns and a chain of references from u has
\* more than maxDepth references, the graph holds the node from which the
\* chain crosses the limit, with the depth error for the reference that
\* crosses it.
C14_DepthErrorVisible ==
    [][\A u \in Uris, content \in BOOLEAN :
          ResolveImports(u, content) =>
             \A p \in C14_Chains :
                (p[1] = u /\ Len(p) = options.maxDepth + 2)
                => C14_DepthErrorOn(graph', p[Len(p) - 1], p[Len(p)])]_vars

(***************************************************************************)
(* C15: the cycles listed in the graph                                     *)
(***************************************************************************)
C15_Edge(g, x, y) == SeqHas(EdgesOf(g.edges, x), y)

\* the edges of the graph as a relation
C15_Edges(g) == {e \in Refs \X Refs : C15_Edge(g, e[1], e[2])}

\* the edge that closes each listed cycle
C15_Closing(g) ==
    {<<c[Len(c) - 1], c[Len(c)]>> : c \in SeqToSet(g.circularDependencies)}

RECURSIVE C15_Reach(_, _, _)
\* what is reached from the set s along the relation r in at most n steps
C15_Reach(r, s, n) ==
    IF n = 0 THEN s
    ELSE C15_Reach(r, s \cup {e[2] : e \in {f \in r : f[1] \in s}}, n - 1)

C15_HasCycle(r) ==
    \E e \in r : e[1] \in C15_Reach(r, {e[2]}, Cardinality(Refs))

\* C15: every listed cycle is a path along edges of the graph back to the
\* node it starts at; every cycle of the edges runs through the closing edge
\* of a listed one; so the list is not empty when the edges hold a cycle.
C15_CyclesListed ==
    /\ \A c \in SeqToSet(graph.circularDependencies) :
          /\ Len(c) >= 2
          /\ c[1] = c[Len(c)]
          /\ \A i \in 1 .. Len(c) - 1 : C15_Edge(graph, c[i], c[i + 1])
    /\ ~C15_HasCycle(C15_Edges(graph) \ C15_Closing(graph))
    /\ C15_HasCycle(C15_Edges(graph)) => graph.circularDependencies # <<>>

\* C15 witness: a and b import each other and the graph lists the cycle
C15_Witness ==
    /\ C15_Edge(graph, "a", "b") /\ C15_Edge(graph, "b", "a")
    /\ graph.circularDependencies = <<<<"b", "a", "b">>>>

(***************************************************************************)
(* C16: two resolveImports calls in flight on one resolver                 *)
(***************************************************************************)
\* the files a root reaches along the references the resolver follows
C16_Reaches(u) ==
    C15_Reach({<<v, w>> \in Uris \X Uris : w \in C14_Follows(v)}, {u}, Cardinality(Uris))

C16_Independent(u, v) == C16_Reaches(u) \cap C16_Reaches(v) = {}

\* the graph resolveImports(rootUri) returns on a resolver that has no other
\* call in flight and nothing cached
C16_Alone(rootUri) ==
    LET r == ResolveTemplate([cache |-> <<>>, nodes |-> <<>>, edges |-> <<>>,
                              stack |-> <<>>, useOrder |-> <<>>, lruOk |-> TRUE,
                              reads |-> 0, ret |-> <<>>, threw |-> "none"],
                             rootUri, 0, FALSE)
    IN [nodes |-> r.nodes, edges |-> r.edges,
        circularDependencies |-> DetectCircularDependencies(r.nodes, r.edges)]

\* C16: a call for a root returns the graph it returns when run alone,
\* whatever a call for an independent root did between its awaits.
C16_ConcurrentCallsIsolated ==
    \A c \in CallIds, d \in CallIds :
        (/\ c # d
         /\ calls[c].pc = "done"
         /\ calls[d].pc # "idle"
         /\ C16_Independent(calls[c].root, calls[d].root))
        => calls[c].result = C16_Alone(calls[c].root)

(***************************************************************************)
(* C17: suppression of diagnostic codes                                    *)
(***************************************************************************)
\* C17: whatever calls came before, addError / addWarning / addInfo with a
\* code appends one diagnostic exactly when that code is not in the
\* suppression set, and appends nothing otherwise.
C17_AppendedIffNotSuppressed ==
    [][\A s \in Severities, c \in Codes \ {NoCode} :
          AddDiagnostic(s, c) =>
              /\ (c \notin suppressedCodes) =>
                     /\ Len(diagnostics') = Len(diagnostics) + 1
                     /\ diagnostics'[Len(diagnostics')].code = c
              /\ (c \in suppressedCodes) => diagnostics' = diagnostics]_vars

C19_Visiting == [i \in 1 .. Len(validation.stack) |-> validation.stack[i].file]

\* C19: a validation that has started returns, and at no time is a file
\* walked into while the walk is already in it: the files the walk is in are
\* distinct and are the currently-visiting set.
C19_ValidationTerminates ==
    /\ (validation.status = "running") ~> (validation.status = "done")
    /\ [](/\ \A i, j \in 1 .. Len(C19_Visiting) :
                 C19_Visiting[i] = C19_Visiting[j] => i = j
          /\ validation.visited = SeqToSet(C19_Visiting)
          /\ Len(validation.stack) < MaxVisiting)

\* a walk over files that refer to each other in a cycle has returned, and
\* it met a file it was in and did not walk into it again
C19_Witness ==
    /\ validation.status = "done"
    /\ validation.skipped > 0
    /\ \E u \in Uris, w \in Uris : w \in C14_Follows(u) /\ u \in C16_Reaches(w)

(***************************************************************************)
(* C20: one file referenced by two sibling imports or includes             *)
(***************************************************************************)
\* the references a file under analysis has met so far
C20_Met(act) == act.infoImports \o act.infoIncludes

\* C20: no file is under analysis for a reference of a file that has met a
\* reference to it before: the second of two sibling references is answered
\* from the completed analysis of the first.
C20_SiblingAnalysedOnce ==
    \A i \in 1 .. Len(chain) - 1 :
        Cardinality({k \in DOMAIN C20_Met(chain[i]) :
                        C20_Met(chain[i])[k] = chain[i + 1].path}) <= 1

(***************************************************************************)
(* C21: processing and completed                                           *)
(***************************************************************************)
\* the analyzers alive: the caller's, and one for each file under analysis
C21_Analyzers == {rootInst} \cup {chain[i].inst : i \in 1 .. Len(chain)}

\* C21: at no point of an analysis, nested or ended by an exception, does an
\* analyzer hold a path both in processing and in completed.
C21_ProcessingCompletedDisjoint ==
    \A inst \in C21_Analyzers : inst.processing \cap inst.completed = {}

\* C21 witness: an analysis of the file is under way again on the analyzer
\* that completed it before, after a walk ended with an exception, and an
\* imported file is under analysis on an analyzer of its own
C21_Witness ==
    /\ "threw" \in seen
    /\ Len(chain) >= 2
    /\ rootInst.processing = {SemRoot}
    /\ SemRoot \in rootInst.cache
    /\ chain[2].inst.processing = {chain[2].path}

(***************************************************************************)
(* C22: a cached node is validated by the modification time                *)
(***************************************************************************)
\* the call c is about to learn whether the cached node it found is valid
C22_Frame(c) == calls[c].frames[Len(calls[c].frames)]

\* the file of the cached node can be inspected and is not newer than the
\* modification time recorded with the node
C22_Unchanged(node) ==
    /\ node.lastModified # 0
    /\ node.uri \in Uris /\ fs[node.uri].exists
    /\ fs[node.uri].mtime <= node.lastModified

\* C22: the step that follows the validation of a cached node returns from
\* resolveTemplate with the cache as it was exactly when the file is
\* unchanged; otherwise it removes the entry and goes on to create the node
\* afresh, with the path on the resolution stack.
C22_CachedOnlyWhenUnchanged ==
    [][\A c \in CallIds :
          ConValidate(c) =>
              LET f == C22_Frame(c)
                  n == Len(calls[c].frames)
              IN IF C22_Unchanged(f.cached)
                 THEN /\ Len(calls'[c].frames) = n - 1
                      /\ cache' = cache
                      /\ graph' = graph
                 ELSE /\ ~CacheHas(cache', f.uri)
                      /\ Len(calls'[c].frames) = n
                      /\ calls'[c].frames[n].pc = "create"
                      /\ SeqHas(resolutionStack', f.uri)]_vars

\* C22 witness: a call found a cached node whose file has been written
\* since; the entry is gone and the call is about to create the node afresh
C22_Witness ==
    \E c \in CallIds :
        /\ ConAt(c, "create")
        /\ C22_Frame(c).cached.uri = C22_Frame(c).uri
        /\ C22_Frame(c).cached.lastModified # 0
        /\ fs[C22_Frame(c).uri].exists
        /\ fs[C22_Frame(c).uri].mtime > C22_Frame(c).cached.lastModified
        /\ ~CacheHas(cache, C22_Frame(c).uri)

(***************************************************************************)
(* C23: the position of a token                                            *)
(***************************************************************************)
\* line and character, counted from 1, of the character at index i of the text
C23_LineOf(i) == 1 + Cardinality({j \in 1 .. i : lexer.content[j] = "nl"})

C23_CharacterOf(i) ==
    LET breaks == {j \in 1 .. i : lexer.content[j] = "nl"}
    IN IF breaks = {} THEN i + 1
       ELSE i + 1 - (CHOOSE j \in breaks : \A k \in breaks : k <= j)

\* C23: every token emitted so far records the offset, line and character
\* of the first character it was scanned from, line and character from 1.
C23_PositionAtFirstCharacter ==
    \A i \in 1 .. Len(lexer.tokens) :
        LET t == lexer.tokens[i]
        IN /\ t.position.offset = t.from
           /\ t.position.line = C23_LineOf(t.from)
           /\ t.position.character = C23_CharacterOf(t.from)
           /\ t.position.line >= 1
           /\ t.position.character >= 1

(***************************************************************************)
(* C24: the closing tag that ends a body                                   *)
(***************************************************************************)
\* the value of the name token of the tag that closes a directive
C24_Closing(owner) ==
    CASE owner = "if" -> "/if"
      [] owner = "macro" -> "/macro"
      [] owner = "attempt" -> "/attempt"
      [] owner = "else" -> "/else"
      [] OTHER -> owner

\* C24: every body of a directive that ended at a closing tag ended at the
\* closing tag of that directive, and the three tokens of the tag were
\* consumed.
C24_BodyEndsAtOwnClosingTag ==
    \A i \in 1 .. Len(parser.bodies) :
        LET b == parser.bodies[i]
        IN (b.owner \in {"if", "macro", "attempt"} /\ b.closedBy # "eof")
           => b.closedBy = C24_Closing(b.owner) /\ b.tokens = 3

(***************************************************************************)
(* C25: a body that is not closed                                          *)
(***************************************************************************)
\* C25: parse does not return normally when the tokens ended inside the body
\* of a directive.
C25_UnterminatedBodyIsFault ==
    parser.status = "returned"
    => \A i \in 1 .. Len(parser.bodies) :
           parser.bodies[i].owner \in {"if", "macro", "attempt"}
           => parser.bodies[i].closedBy # "eof"

(***************************************************************************)
(* C26: the names a body declares                                          *)
(***************************************************************************)
\* the analysed template is a body that assigns v, then a use of the name
C26_UsesAfterBody(name) ==
    \E b \in Bodies("v") : fs[SemRoot].body = <<b, Interpolation(Variable(name), "after")>>

\* the analysis has ended and names the use after the body as undefined
C26_Reported(name) ==
    /\ semResult.status = "done"
    /\ \E i \in 1 .. Len(semResult.errors) : semResult.errors[i] = <<"FTL2001", name, "after">>

\* C26: a variable that is given its value only inside the body of an if,
\* a list, a switch or a macro, and the loop variable of a list, is not in
\* the table of the enclosing scope: a use of the name after the body is
\* reported as undefined when the analysis has ended.
C26_BodyNamesStayInBody ==
    \A name \in {"v", "item"} :
        (semResult.status = "done" /\ C26_UsesAfterBody(name)) => C26_Reported(name)

(***************************************************************************)
(* C28: the parameters of a macro after a call                             *)
(***************************************************************************)
\* the parameters of the macro of this name defined at the top of a template
C28_ParametersOf(body, name) ==
    SeqToSet(body[CHOOSE i \in 1 .. Len(body) :
                      body[i].type = "Macro" /\ body[i].name = name].parameters)

\* C28: when the analysis has ended, a use of a name that stands in the
\* template after a call of a macro defined in it, that is a parameter of
\* the macro and that nothing in the template assigns, has an
\* undefined-variable diagnostic.
C28_ParametersStayInMacro ==
    semResult.status = "done" =>
        LET body == fs[SemRoot].body
        IN \A i, j \in 1 .. Len(body) :
              (/\ i < j
               /\ body[i].type = "MacroCall"
               /\ body[i].name \in C11_Defined(body)
               /\ body[j].type = "Interpolation"
               /\ body[j].expr.type = "Variable"
               /\ body[j].expr.name \in C28_ParametersOf(body, body[i].name)
               /\ body[j].expr.name \notin
                      C12_AssignedIn(body) \cup C12_AssignedIn(C12_BodyOf(body, body[i].name)))
              => \E k \in 1 .. Len(semResult.errors) :
                     semResult.errors[k] = <<"FTL2001", body[j].expr.name, body[j].at>>

(***************************************************************************)
(* C27: a call answered from the cache                                     *)
(***************************************************************************)
\* the first call of the scenario has returned: nothing was cached before it
C27_ColdCallReturned == scen = 1

\* the third call of the scenario has returned: it asked for the root of the
\* first call again, with no file written and no option changed in between
C27_WarmCallReturned == scen = 3

\* C27: the graph a call returns for a root whose node is in the cache, with
\* every file unchanged since, has the nodes, the edges and the
\* circularDependencies of the graph the first call for that root returned
\* on the empty cache.
C27_WarmGraphEqualsCold ==
    /\ C27_ColdCallReturned => graph = C16_Alone(ScenarioRoots[1])
    /\ C27_WarmCallReturned => graph = C16_Alone(ScenarioRoots[3])

(***************************************************************************)
(* C29: isResolved                                                         *)
(***************************************************************************)
\* C29: in the graph a call returned, a node with isResolved = true has
\* content: the file was read, or the caller gave the text.
C29_ResolvedOnlyWithContent ==
    \A i \in 1 .. Len(graph.nodes) :
        graph.nodes[i].value.isResolved => graph.nodes[i].value.content

(***************************************************************************)
(* C30: one timer for a document                                           *)
(***************************************************************************)
\* the timers of a document that can still fire
C30_Live(doc) == {t \in extension.timers : t.doc = doc}

\* C30: at every moment a document has at most one timer that can still
\* fire, and it is the timer pendingAnalyses holds for it; a closed document
\* has no timer and no diagnostics; and when a timer fires, however many
\* schedules came before it, no timer of its document is left and its
\* diagnostics are set at most for an open document.
C30_OneLiveTimer ==
    /\ [](\A doc \in Documents :
            /\ Cardinality(C30_Live(doc)) <= 1
            /\ \A t \in C30_Live(doc) : extension.pendingAnalyses[doc] = t.handle
            /\ extension.pendingAnalyses[doc] # NoTimer => C30_Live(doc) # {}
            /\ doc \notin extension.open =>
                   C30_Live(doc) = {} /\ doc \notin extension.diagnosticCollection)
    /\ [][\A timer \in extension.timers, threw \in BOOLEAN :
            TimerFires(timer, threw) =>
               /\ {t \in extension'.timers : t.doc = timer.doc} = {}
               /\ extension'.pendingAnalyses[timer.doc] = NoTimer
               /\ timer.doc \in extension.open]_vars

\* a timer is pending for a document after a burst of three schedules, and
\* another document was closed while its timer was pending
C30_Witness ==
    \E doc \in Documents, other \in Documents :
        /\ extension.burst[doc] >= 3
        /\ C30_Live(doc) # {}
        /\ other \notin extension.open
        /\ extension.handles > extension.burst[doc]
        /\ C30_Live(other) = {}

====
